---------------------------- MODULE Spec2Model ----------------------------
(***************************************************************************)
(* Model of the ESP-IDF partition-table core of webesptool:                *)
(*   utils/partition_parser/parser.py     parse_partitions_file            *)
(*   utils/partition_parser/validator.py  validate_partition_table         *)
(*   utils/partition_parser/utils.py      find_partition_by_type           *)
(*   utils/partition_parser/formatters.py format_analysis                  *)
(* and of the offset resolution that uses it:                              *)
(*   service.py                           buildManifest                    *)
(*                                                                         *)
(* Bytes are naturals 0..255, a buffer is a sequence of bytes, a Python    *)
(* str is the sequence of its code points, a Python list is a sequence.    *)
(* Python ints are unbounded, so no arithmetic here wraps.  A 32-bit field  *)
(* and every sum of two of them is a "wide" integer <<hi, lo>>, standing   *)
(* for hi * 65536 + lo with 0 <= lo < 65536, since the sentinel size       *)
(* 0xFFFFFFFF is beyond the integers the model checker computes with.      *)
(***************************************************************************)
EXTENDS Integers, Sequences, FiniteSets, TLC

VARIABLES
    input,            \* ghost: the wire entries and trailing bytes data was built from
    data,             \* parser.py: data, the bytes read from the file
    offset,           \* parser.py: offset, the read position of the decode loop
    table,            \* the PartitionTable (models.py): [md5, entries]
    pc,               \* position of the running call
    err,              \* the exception raised, if any
    check_overlaps,   \* validator.py: the check_overlaps argument
    index,            \* validator.py: loop index of the per-entry scan
    type_val,         \* utils.py: the type_val argument
    subtypes,         \* utils.py: the subtypes argument
    result,           \* utils.py: the value find_partition_by_type returns
    analysis,         \* formatters.py: the analysis dict of format_analysis
    request,          \* service.py: the arguments t and u of buildManifest
    rootFolder,       \* service.py: whether getRootFolder returned a folder
    fw_type,          \* service.py: the firmware type getRootFolder returned
    is_file,          \* whether <rootFolder>/<t>/<v>/partitions.bin is a file
    devinfo,          \* service.py: the dict loadInfo returned
    partitions_offsets,       \* service.py: None or the dict read from the table
    flashsize,                \* service.py
    install_fw_offset,        \* service.py
    install_bleota_offset,    \* service.py
    install_littlefs_offset,  \* service.py
    manifest,                 \* service.py: the manifest buildManifest returns
    calls,            \* ghost: how many calls of validate_partition_table were made
    first,            \* ghost: the outcome of the first of them
    checked,          \* ghost: the checks the running call has made, in order
    world,            \* what the install directories hold for a device id
    args,             \* service.py: the arguments of each buildManifest call
    frames,           \* service.py: the local variables of the buildManifest calls
    cpc,              \* position of each buildManifest call
    manifests,        \* the manifest each buildManifest call returned
    mixed             \* ghost: whether a call ran while the other one was suspended

\* the state of a buildManifest call
manifestVars == <<request, rootFolder, fw_type, is_file, devinfo, partitions_offsets,
                  flashsize, install_fw_offset, install_bleota_offset,
                  install_littlefs_offset, manifest>>

\* the record of the calls of validate_partition_table
callVars == <<calls, first, checked>>

\* the state of the buildManifest calls that run together
concurrentVars == <<world, args, frames, cpc, manifests, mixed>>

vars == <<input, data, offset, table, pc, err, check_overlaps, index,
          type_val, subtypes, result, analysis, manifestVars, callVars,
          concurrentVars>>

-----------------------------------------------------------------------------
(* Program constants                                                       *)

PARTITION_MAGIC == 20650          \* 0x50AA

PARTITION_END_MARKER == 60395     \* 0xEBEB

PARTITION_ENTRY_SIZE == 32

PARTITION_ALIGNMENT == 4096       \* 0x1000

\* 2^16, the base of the wide integers
WORD == 256 * 256

\* validator.py: the longest name _validate_entry accepts
MAX_NAME_LEN == 16

\* parser.py: width of the name field of struct format "<HBBII16sI"
NAME_FIELD_SIZE == 16

\* U+FFFD, what bytes.decode(errors="replace") puts for an invalid byte
REPLACEMENT_CHAR == 65533

-----------------------------------------------------------------------------
(* Bounds of the model                                                     *)

\* most complete 32-byte entries in a generated buffer
MaxEntries == 3

\* most records in a generated table (validator, selector, analyzer)
MaxTable == 3

\* the largest number of 32-byte entries of a partitions.bin file
MaxFileEntries == 2

-----------------------------------------------------------------------------
(* Python values                                                           *)

\* the integer hi * 65536 + lo
W(hi, lo) == <<hi, lo>>

\* a small natural as a wide integer
ToW(n) == <<n \div WORD, n % WORD>>

\* a + b
WAdd(a, b) == <<a[1] + b[1] + ((a[2] + b[2]) \div WORD), (a[2] + b[2]) % WORD>>

\* a < b
WLt(a, b) == a[1] < b[1] \/ (a[1] = b[1] /\ a[2] < b[2])

\* a <= b
WLe(a, b) == a[1] < b[1] \/ (a[1] = b[1] /\ a[2] <= b[2])

\* a % m, for a modulus m of at most 65536
WMod(a, m) == (((a[1] % m) * (WORD % m)) + (a[2] % m)) % m

\* validator.py: the "rest of flash" size 0xFFFFFFFF
SENTINEL_SIZE == W(65535, 65535)

\* Python's None and an integer, as the two values of an Optional[int]
None == [some |-> FALSE, val |-> <<0, 0>>]

Some(v) == [some |-> TRUE, val |-> v]

\* an exception: its kind, the offset or index its message gives, and the
\* record names its message gives
Error(kind, at, name, next) == [kind |-> kind, at |-> at, name |-> name, next |-> next]

NoError == Error("none", 0, <<>>, <<>>)

\* PartitionEntry(name, type_val, subtype, offset, size, flags)
PartitionEntry(n, t, s, o, z, f) ==
    [name |-> n, type_val |-> t, subtype |-> s, offset |-> o, size |-> z, flags |-> f]

\* PartitionTable(md5=None): md5 absent, entries = []
EmptyTable == [md5 |-> None, entries |-> <<>>]

\* PartitionTable.add_entry
add_entry(tbl, entry) == [tbl EXCEPT !.entries = Append(@, entry)]

\* the analysis of a call that has not run
NoAnalysis ==
    [flash_size_mb |-> <<0, "MB">>, flash_size_bytes |-> <<0, 0>>,
     partition_count |-> 0, partitions |-> <<>>]

\* the f-string f"{n}MB", and the literals '4MB', '8MB', '16MB'; among these str
\* values the empty tuple stands for the empty str
MB(n) == <<n, "MB">>

\* the manifest dict before any key of builds[0] is filled in (lines 514-527);
\* flashsize <<>> stands for the key not being set yet
EmptyManifest(name) ==
    [name |-> name, chipFamily |-> "", flashsize |-> <<>>, parts |-> <<>>,
     pathota |-> FALSE]

\* no buildManifest call is running
NoManifest ==
    /\ request = [t |-> <<>>, u |-> "1"]
    /\ rootFolder = FALSE
    /\ fw_type = "meshtastic"
    /\ is_file = FALSE
    /\ devinfo = [flashSize |-> None, chip |-> ""]
    /\ partitions_offsets = None
    /\ flashsize = MB(4)
    /\ install_fw_offset = <<0, 0>>
    /\ install_bleota_offset = <<0, 0>>
    /\ install_littlefs_offset = <<0, 0>>
    /\ manifest = EmptyManifest(<<>>)

\* the outcome of a call: whether it returned, and the exception if it raised
Outcome(returned, e) == [returned |-> returned, err |-> e]

\* no call of validate_partition_table was made
NoCall ==
    /\ calls = 0
    /\ first = Outcome(FALSE, NoError)
    /\ checked = <<>>

\* no buildManifest calls run together
NoConcurrent ==
    /\ world = <<>>
    /\ args = <<>>
    /\ frames = <<>>
    /\ cpc = <<>>
    /\ manifests = <<>>
    /\ mixed = <<>>

\* all sequences over S of length 0..n
SeqUpTo(S, n) == UNION {[1..k -> S] : k \in 0..n}

Repeat(x, n) == [i \in 1..n |-> x]

-----------------------------------------------------------------------------
(* struct.unpack("<HBBII16sI", entry_data) and the name decoding           *)

\* a wrong byte order: most significant byte first
BigEndian16(bs) == bs[2] + 256 * bs[1]

\* "<H": two bytes, least significant first
LittleEndian16(bs) == bs[1] + 256 * bs[2]

\* a wrong byte order for "I": most significant byte first
BigEndian32(bs) == W(bs[2] + 256 * bs[1], bs[4] + 256 * bs[3])

\* "<I": four bytes, least significant first
LittleEndian32(bs) == W(bs[3] + 256 * bs[4], bs[1] + 256 * bs[2])

\* the seven fields of one 32-byte entry
Unpack(entry_data) ==
    [magic      |-> LittleEndian16(SubSeq(entry_data, 1, 2)),
     type_val   |-> entry_data[3],
     subtype    |-> entry_data[4],
     offset_val |-> LittleEndian32(SubSeq(entry_data, 5, 8)),
     size_val   |-> LittleEndian32(SubSeq(entry_data, 9, 12)),
     name_bytes |-> SubSeq(entry_data, 13, 12 + NAME_FIELD_SIZE),
     flags      |-> LittleEndian32(SubSeq(entry_data, 13 + NAME_FIELD_SIZE, 16 + NAME_FIELD_SIZE))]

\* name_bytes.rstrip(b"\x00"): drops the zero bytes at the END of the field only
RStripZero(bs) ==
    LET keep == {i \in 1..Len(bs) : bs[i] # 0}
    IN  IF keep = {} THEN <<>>
        ELSE SubSeq(bs, 1, CHOOSE i \in keep : \A j \in keep : j <= i)

\* bytes.decode("utf-8", errors="replace") on bytes below 0xE0: an ASCII byte is
\* its own code point, a lead byte 0xC2..0xDF with a continuation byte is one
\* code point, any other byte is replaced by U+FFFD and decoding resumes after it.
\* (Three- and four-byte forms, lead bytes 0xE0 and above, are not generated.)
\* The decoder reads bs from position i on.
RECURSIVE Utf8DecodeFrom(_, _)
Utf8DecodeFrom(bs, i) ==
    IF i > Len(bs) THEN <<>>
    ELSE IF bs[i] < 128 THEN <<bs[i]>> \o Utf8DecodeFrom(bs, i + 1)
    ELSE IF /\ bs[i] >= 194 /\ bs[i] <= 223
            /\ Len(bs) >= i + 1 /\ bs[i + 1] >= 128 /\ bs[i + 1] <= 191
         THEN <<(bs[i] - 192) * 64 + (bs[i + 1] - 128)>> \o Utf8DecodeFrom(bs, i + 2)
    ELSE <<REPLACEMENT_CHAR>> \o Utf8DecodeFrom(bs, i + 1)

\* bytes.decode("utf-8", errors="replace")
Utf8Decode(bs) == Utf8DecodeFrom(bs, 1)

\* name = name_bytes.rstrip(b"\x00").decode("utf-8", errors="replace")
DecodeName(name_bytes) == Utf8Decode(RStripZero(name_bytes))

\* a magic test that takes erased flash (0xFFFF) for the end marker too
IsEndMarkerOrErased(magic) == magic = PARTITION_END_MARKER \/ magic = 65535

\* magic == PARTITION_END_MARKER
IsEndMarker(magic) == magic = PARTITION_END_MARKER

\* a magic test that accepts every value
InvalidMagicNever(magic) == FALSE

\* magic != PARTITION_MAGIC
InvalidMagic(magic) == magic # PARTITION_MAGIC

\* a size check that lets every buffer through
TooSmallNever(d) == FALSE

\* len(data) < PARTITION_ENTRY_SIZE
TooSmall(d) == Len(d) < PARTITION_ENTRY_SIZE

\* a loop guard that only stops when no byte at all is left
OutOfDataAtEnd(off, d) == off >= Len(d)

\* offset + PARTITION_ENTRY_SIZE > len(data)
OutOfData(off, d) == off + PARTITION_ENTRY_SIZE > Len(d)

\* a read position that skips an entry
AdvanceTwo(off) == off + 2 * PARTITION_ENTRY_SIZE

\* offset += PARTITION_ENTRY_SIZE
Advance(off) == off + PARTITION_ENTRY_SIZE

\* data[offset : offset + PARTITION_ENTRY_SIZE]; a Python slice stops at the end
EntrySlice(d, off) ==
    SubSeq(d, off + 1, IF off + PARTITION_ENTRY_SIZE > Len(d) THEN Len(d)
                       ELSE off + PARTITION_ENTRY_SIZE)

-----------------------------------------------------------------------------
(* Building input buffers: the packing direction of the same layout        *)

\* a 16-bit value as two bytes, least significant first
PackLE16(n) == <<n % 256, n \div 256>>

\* a 32-bit wide integer as four bytes, least significant first
PackLE32(w) == PackLE16(w[2]) \o PackLE16(w[1])

\* str.encode("utf-8") for code points below 0x800
RECURSIVE Utf8Encode(_)
Utf8Encode(cs) ==
    IF cs = <<>> THEN <<>>
    ELSE IF cs[1] < 128 THEN <<cs[1]>> \o Utf8Encode(Tail(cs))
    ELSE <<192 + (cs[1] \div 64), 128 + (cs[1] % 64)>> \o Utf8Encode(Tail(cs))

\* the "16s" field: the bytes followed by zero padding
PadName(bs) == bs \o Repeat(0, NAME_FIELD_SIZE - Len(bs))

\* one 32-byte entry: magic, type, subtype, offset, size, name, flags
PackEntry(w) ==
    PackLE16(w.magic) \o <<w.rec.type_val, w.rec.subtype>>
    \o PackLE32(w.rec.offset) \o PackLE32(w.rec.size)
    \o PadName(Utf8Encode(w.rec.name)) \o PackLE32(w.rec.flags)

RECURSIVE PackAll(_)
PackAll(ws) == IF ws = <<>> THEN <<>> ELSE PackEntry(Head(ws)) \o PackAll(Tail(ws))

\* the buffer of a ghost input: its entries, then its trailing fragment
BuildData(inp) == PackAll(inp.entries) \o inp.trail


-----------------------------------------------------------------------------
(* Inputs of the decoder                                                   *)

\* records put on the wire: the scenario records of the format, an empty name,
\* a name that fills the field, names holding a zero code point (at the end and
\* inside), a two-byte character, and values whose four bytes all differ
WireRecords ==
    { \* ("nvs", data, 0x02, 0x9000, 0x5000, 0)
      PartitionEntry(<<110, 118, 115>>, 1, 2, W(0, 36864), W(0, 20480), W(0, 0)),
      \* ("factory", app, 0x00, 0xe000, 0x100000, 0)
      PartitionEntry(<<102, 97, 99, 116, 111, 114, 121>>, 0, 0, W(0, 57344), W(16, 0), W(0, 0)),
      \* ("", app, 0x10, 0x12345678, 0xFFFFFFFF, 1)
      PartitionEntry(<<>>, 0, 16, W(4660, 22136), SENTINEL_SIZE, W(0, 1)),
      \* ("A\0", 0xFF, 0x82, 0, 0, 0xFFFFFFFF)
      PartitionEntry(<<65, 0>>, 255, 130, W(0, 0), W(0, 0), W(65535, 65535)),
      \* ("AAAAAAAAAAAAAAAA", data, 0x09, 0x300000, 0x1000, 0)
      PartitionEntry(Repeat(65, NAME_FIELD_SIZE), 1, 9, W(48, 0), W(0, 4096), W(0, 0)),
      \* ("A\0\u00e9", app, 0x11, 0x1000, 0x87654321, 2)
      PartitionEntry(<<65, 0, 233>>, 0, 17, W(0, 4096), W(34661, 17185), W(0, 2)) }

\* 0x1234, the bytes 34 12: neither the valid magic nor the end marker
BadMagic == LittleEndian16(<<52, 18>>)

\* 0xFFFF, the bytes FF FF of erased flash: not a valid magic either
ErasedMagic == LittleEndian16(<<255, 255>>)

\* ("x", app, factory, 0x1000, 0x1000, 0)
FragmentRecord == PartitionEntry(<<120>>, 0, 0, W(0, 4096), W(0, 4096), W(0, 0))

\* the 32-byte entries a buffer is made of
WireEntries ==
    {[magic |-> PARTITION_MAGIC, rec |-> r] : r \in WireRecords}
    \cup {[magic |-> PARTITION_END_MARKER, rec |-> r] :
            r \in { PartitionEntry(<<>>, 0, 0, W(0, 0), W(0, 0), W(0, 0)),
                    PartitionEntry(Repeat(127, NAME_FIELD_SIZE), 255, 255,
                                   SENTINEL_SIZE, SENTINEL_SIZE, SENTINEL_SIZE) }}
    \cup {[magic |-> BadMagic, rec |-> FragmentRecord],
          [magic |-> ErasedMagic,
           rec |-> PartitionEntry(Repeat(127, NAME_FIELD_SIZE), 255, 255,
                                  SENTINEL_SIZE, SENTINEL_SIZE, SENTINEL_SIZE)]}

\* a trailing fragment: the first bytes of an entry, fewer than one entry
Trails ==
    {<<>>}
    \cup { SubSeq(PackEntry([magic |-> m, rec |-> FragmentRecord]), 1, k) :
             m \in {PARTITION_MAGIC, PARTITION_END_MARKER, BadMagic},
             k \in {2, PARTITION_ENTRY_SIZE - 1} }

Inputs == [entries : SeqUpTo(WireEntries, MaxEntries), trail : Trails]

-----------------------------------------------------------------------------
(* parse_partitions_file (parser.py)                                       *)

\* lines 57-65: the size check, then table = PartitionTable(md5=None), offset = 0
ParseCheckSize ==
    /\ pc = "check_size"
    /\ IF TooSmall(data)
       THEN /\ pc' = "raised"
            /\ err' = Error("too_small", Len(data), <<>>, <<>>)
            /\ UNCHANGED <<table, offset>>
       ELSE /\ pc' = "loop"
            /\ table' = EmptyTable
            /\ offset' = 0
            /\ UNCHANGED err
    /\ UNCHANGED <<input, data, check_overlaps, index, type_val, subtypes,
                   result, analysis>>
    /\ UNCHANGED manifestVars
    /\ UNCHANGED concurrentVars
    /\ UNCHANGED callVars

\* lines 67-116: one iteration of the decode loop
ParseEntry ==
    /\ pc = "loop"
    /\ IF OutOfData(offset, data)
       THEN /\ pc' = "raised"
            /\ err' = Error("unexpected_end", offset, <<>>, <<>>)
            /\ UNCHANGED <<table, offset>>
       ELSE LET entry_data == EntrySlice(data, offset) IN
            IF Len(entry_data) # PARTITION_ENTRY_SIZE
            THEN \* struct.error, caught and re-raised as ParseError
                 /\ pc' = "raised"
                 /\ err' = Error("unpack", offset, <<>>, <<>>)
                 /\ UNCHANGED <<table, offset>>
            ELSE LET u == Unpack(entry_data) IN
                 IF IsEndMarker(u.magic)
                 THEN /\ pc' = "returned"
                      /\ UNCHANGED <<table, offset, err>>
                 ELSE IF InvalidMagic(u.magic)
                 THEN /\ pc' = "raised"
                      /\ err' = Error("bad_magic", offset, <<>>, <<>>)
                      /\ UNCHANGED <<table, offset>>
                 ELSE /\ table' = add_entry(table,
                                     PartitionEntry(DecodeName(u.name_bytes), u.type_val,
                                                    u.subtype, u.offset_val, u.size_val,
                                                    u.flags))
                      /\ offset' = Advance(offset)
                      /\ UNCHANGED <<pc, err>>
    /\ UNCHANGED <<input, data, check_overlaps, index, type_val, subtypes,
                   result, analysis>>
    /\ UNCHANGED manifestVars
    /\ UNCHANGED concurrentVars
    /\ UNCHANGED callVars

\* what one whole call makes of the buffer d from read position off on, the
\* table being tbl: lines 67-118 run to their end
RECURSIVE ParseLoop(_, _, _)
ParseLoop(d, off, tbl) ==
    IF OutOfData(off, d)
    THEN [pc |-> "raised", err |-> Error("unexpected_end", off, <<>>, <<>>),
          table |-> tbl, offset |-> off]
    ELSE LET entry_data == EntrySlice(d, off)
             u == Unpack(entry_data)
         IN  IF Len(entry_data) # PARTITION_ENTRY_SIZE
             THEN [pc |-> "raised", err |-> Error("unpack", off, <<>>, <<>>),
                   table |-> tbl, offset |-> off]
             ELSE IF IsEndMarker(u.magic)
             THEN [pc |-> "returned", err |-> NoError, table |-> tbl, offset |-> off]
             ELSE IF InvalidMagic(u.magic)
             THEN [pc |-> "raised", err |-> Error("bad_magic", off, <<>>, <<>>),
                   table |-> tbl, offset |-> off]
             ELSE ParseLoop(d, Advance(off),
                            add_entry(tbl, PartitionEntry(DecodeName(u.name_bytes),
                                                          u.type_val, u.subtype,
                                                          u.offset_val, u.size_val,
                                                          u.flags)))

\* parse_partitions_file on the bytes d, from the size check to the return or
\* the raise
ParsePartitions(d) ==
    IF TooSmall(d)
    THEN [pc |-> "raised", err |-> Error("too_small", Len(d), <<>>, <<>>),
          table |-> EmptyTable, offset |-> 0]
    ELSE ParseLoop(d, 0, EmptyTable)

InitParse ==
    /\ input \in Inputs
    /\ data = BuildData(input)
    /\ offset = 0
    /\ table = EmptyTable
    /\ pc = "check_size"
    /\ err = NoError
    /\ check_overlaps = FALSE
    /\ index = 0
    /\ type_val = 0
    /\ subtypes = <<>>
    /\ result = None
    /\ analysis = NoAnalysis
    /\ NoManifest
    /\ NoConcurrent
    /\ NoCall

NextParse == ParseCheckSize \/ ParseEntry

SpecParse == InitParse /\ [][NextParse]_vars

\* buffers made of one record, the end marker and a bad magic in every order,
\* followed by nothing, by 2 bytes or by 31 bytes
LiveInputs ==
    [entries : SeqUpTo({[magic |-> m, rec |-> FragmentRecord] :
                           m \in {PARTITION_MAGIC, PARTITION_END_MARKER, BadMagic}},
                       MaxEntries),
     trail : {SubSeq(PackEntry([magic |-> PARTITION_MAGIC, rec |-> FragmentRecord]), 1, k) :
                 k \in {0, 2, PARTITION_ENTRY_SIZE - 1}}]

InitParseLive ==
    /\ input \in LiveInputs
    /\ data = BuildData(input)
    /\ offset = 0
    /\ table = EmptyTable
    /\ pc = "check_size"
    /\ err = NoError
    /\ check_overlaps = FALSE
    /\ index = 0
    /\ type_val = 0
    /\ subtypes = <<>>
    /\ result = None
    /\ analysis = NoAnalysis
    /\ NoManifest
    /\ NoConcurrent
    /\ NoCall

\* the call runs on: Python executes the next statement of a function that
\* has one
SpecParseLive == InitParseLive /\ [][NextParse]_vars /\ WF_vars(NextParse)

-----------------------------------------------------------------------------
(* validate_partition_table (validator.py)                                 *)

\* an alignment test without the exemption of the sentinel size
SizeMisalignedNoSentinel(size) == WMod(size, PARTITION_ALIGNMENT) # 0

\* entry.size % PARTITION_ALIGNMENT != 0 and entry.size != 0xFFFFFFFF
SizeMisaligned(size) ==
    WMod(size, PARTITION_ALIGNMENT) # 0 /\ size # SENTINEL_SIZE

\* entry.offset % PARTITION_ALIGNMENT != 0
OffsetMisaligned(off) == WMod(off, PARTITION_ALIGNMENT) # 0

\* a per-entry check that tests the alignment rules before the name rules
ValidateEntryErrorAlignFirst(entry, i) ==
    IF OffsetMisaligned(entry.offset) THEN Error("offset_misaligned", i, entry.name, <<>>)
    ELSE IF SizeMisaligned(entry.size) THEN Error("size_misaligned", i, entry.name, <<>>)
    ELSE IF entry.name = <<>> THEN Error("empty_name", i, <<>>, <<>>)
    ELSE IF Len(entry.name) > MAX_NAME_LEN THEN Error("name_too_long", i, entry.name, <<>>)
    ELSE NoError

\* _validate_entry: the ValidationError of the first rule the entry breaks, in
\* the order empty name, name too long, offset alignment, size alignment.
\* The message of the empty-name error gives the index only.
ValidateEntryError(entry, i) ==
    IF entry.name = <<>> THEN Error("empty_name", i, <<>>, <<>>)
    ELSE IF Len(entry.name) > MAX_NAME_LEN THEN Error("name_too_long", i, entry.name, <<>>)
    ELSE IF OffsetMisaligned(entry.offset) THEN Error("offset_misaligned", i, entry.name, <<>>)
    ELSE IF SizeMisaligned(entry.size) THEN Error("size_misaligned", i, entry.name, <<>>)
    ELSE NoError

\* a sort that puts an entry before the entries of the same offset
RECURSIVE InsertByOffsetBeforeEqual(_, _)
InsertByOffsetBeforeEqual(sorted, e) ==
    IF sorted = <<>> THEN <<e>>
    ELSE IF WLe(e.offset, Head(sorted).offset) THEN <<e>> \o sorted
    ELSE <<Head(sorted)>> \o InsertByOffsetBeforeEqual(Tail(sorted), e)

\* sorted(..., key=lambda e: e.offset) is stable: an entry goes after every
\* entry whose offset is not greater than its own
RECURSIVE InsertByOffset(_, _)
InsertByOffset(sorted, e) ==
    IF sorted = <<>> THEN <<e>>
    ELSE IF WLt(e.offset, Head(sorted).offset) THEN <<e>> \o sorted
    ELSE <<Head(sorted)>> \o InsertByOffset(Tail(sorted), e)

RECURSIVE SortByOffset(_)
SortByOffset(es) ==
    IF es = <<>> THEN <<>>
    ELSE InsertByOffset(SortByOffset(SubSeq(es, 1, Len(es) - 1)), es[Len(es)])

\* an overlap test that forgets to add the offset: current.size > next.offset
PairOverlapsSizeOnly(se, i) ==
    /\ se[i + 1].size # SENTINEL_SIZE
    /\ WLt(se[i + 2].offset, se[i + 1].size)

\* a filter that keeps the records at offset 0 too
OverlapCandidatesAll(entries) == entries

\* [e for e in table.entries if e.offset > 0]
OverlapCandidates(entries) == SelectSeq(entries, LAMBDA e : WLt(W(0, 0), e.offset))

\* sorted_entries of _check_overlaps
SortedEntries(entries) == SortByOffset(OverlapCandidates(entries))

\* the pair at positions i, i+1 (from 0) of sorted_entries raises: the current
\* size is not the sentinel and current_end > next_entry.offset
PairOverlaps(se, i) ==
    /\ se[i + 1].size # SENTINEL_SIZE
    /\ WLt(se[i + 2].offset, WAdd(se[i + 1].offset, se[i + 1].size))

\* _check_overlaps: the ValidationError of the first pair that overlaps
CheckOverlapsError(entries) ==
    LET se == SortedEntries(entries)
        bad == {i \in 0..(Len(se) - 2) : PairOverlaps(se, i)}
    IN  IF bad = {} THEN NoError
        ELSE LET i == CHOOSE k \in bad : \A m \in bad : k <= m
             IN  Error("overlap", i, se[i + 1].name, se[i + 2].name)

\* a sort that reorders table.entries itself
EntriesSortedInPlace(entries) == SortedEntries(entries)

\* lines 84-86: sorted() over a list comprehension builds new lists, and
\* table.entries is what it was
EntriesAfterSorted(entries) == entries

\* an overlap check that is made whatever the flag
AfterScanAlways(flag) == "overlaps"

\* lines 37-38: if check_overlaps, the overlap check follows the scan
AfterScan(flag) == IF flag THEN "overlaps" ELSE "done"

\* a test that takes no table for empty
IsEmptyTableNever(tbl) == FALSE

\* line 29: not table.entries
IsEmptyTable(tbl) == tbl.entries = <<>>

\* the error of the first entry, in table order, that _validate_entry rejects
FirstEntryError(entries) ==
    LET bad == {i \in 1..Len(entries) : ValidateEntryError(entries[i], i - 1) # NoError}
    IN  IF bad = {} THEN NoError
        ELSE LET i == CHOOSE k \in bad : \A m \in bad : k <= m
             IN  ValidateEntryError(entries[i], i - 1)

\* validate_partition_table(tbl, check_overlaps=flag) as a whole: the
\* ValidationError it raises, NoError when it returns
ValidationError(tbl, flag) ==
    IF IsEmptyTable(tbl) THEN Error("empty_table", 0, <<>>, <<>>)
    ELSE IF FirstEntryError(tbl.entries) # NoError THEN FirstEntryError(tbl.entries)
    ELSE IF flag THEN CheckOverlapsError(tbl.entries)
    ELSE NoError

\* lines 29-33: the empty table is rejected; otherwise the per-entry scan
\* starts, a for loop that is over at once when there is no entry
ValidateStart ==
    /\ pc = "validate"
    /\ IF IsEmptyTable(table)
       THEN /\ pc' = "raised"
            /\ err' = Error("empty_table", 0, <<>>, <<>>)
       ELSE /\ pc' = IF table.entries = <<>> THEN AfterScan(check_overlaps)
                     ELSE "entries"
            /\ UNCHANGED err
    /\ index' = 0
    /\ UNCHANGED <<input, data, offset, table, check_overlaps, type_val,
                   subtypes, result, analysis>>
    /\ UNCHANGED manifestVars
    /\ UNCHANGED concurrentVars
    /\ UNCHANGED callVars

\* lines 33-34: _validate_entry(entry, i) for the next entry of the scan
ValidateEntry ==
    /\ pc = "entries"
    /\ LET e == ValidateEntryError(table.entries[index + 1], index) IN
       IF e # NoError
       THEN /\ pc' = "raised"
            /\ err' = e
            /\ UNCHANGED index
       ELSE /\ index' = index + 1
            /\ pc' = IF index + 1 < Len(table.entries) THEN "entries"
                     ELSE AfterScan(check_overlaps)
            /\ UNCHANGED err
    /\ checked' = Append(checked, "entry")
    /\ UNCHANGED <<input, data, offset, table, check_overlaps, type_val,
                   subtypes, result, analysis>>
    /\ UNCHANGED manifestVars
    /\ UNCHANGED concurrentVars
    /\ UNCHANGED <<calls, first>>

\* lines 37-38: _check_overlaps(table)
CheckOverlaps ==
    /\ pc = "overlaps"
    /\ LET e == CheckOverlapsError(table.entries) IN
       IF e # NoError
       THEN /\ pc' = "raised"
            /\ err' = e
       ELSE /\ pc' = "done"
            /\ UNCHANGED err
    /\ table' = [table EXCEPT !.entries = EntriesAfterSorted(@)]
    /\ checked' = Append(checked, "overlaps")
    /\ UNCHANGED <<input, data, offset, check_overlaps, index, type_val,
                   subtypes, result, analysis>>
    /\ UNCHANGED manifestVars
    /\ UNCHANGED concurrentVars
    /\ UNCHANGED <<calls, first>>

\* the caller, after the first call returned or raised, calls
\* validate_partition_table again on the same table object with the same flag
ValidateAgain ==
    /\ pc \in {"done", "raised"}
    /\ calls = 1
    /\ first' = Outcome(pc = "done", err)
    /\ calls' = 2
    /\ checked' = <<>>
    /\ pc' = "validate"
    /\ err' = NoError
    /\ index' = 0
    /\ UNCHANGED <<input, data, offset, table, check_overlaps, type_val,
                   subtypes, result, analysis>>
    /\ UNCHANGED manifestVars
    /\ UNCHANGED concurrentVars

\* records handed to the validator: sizes of zero, one and two sectors and the
\* sentinel at offsets 0, 0x1000, 0x2000 and just below 2^32, then records
\* that break one rule each, and one that breaks three
ValidatorRecords ==
    { PartitionEntry(<<97>>, 0, 0, W(0, 0), W(0, 8192), W(0, 0)),
      PartitionEntry(<<98>>, 0, 0, W(0, 4096), W(0, 0), W(0, 0)),
      PartitionEntry(<<99>>, 0, 0, W(0, 4096), W(0, 4096), W(0, 0)),
      PartitionEntry(<<100>>, 0, 0, W(0, 4096), W(0, 8192), W(0, 0)),
      PartitionEntry(<<101>>, 0, 0, W(0, 4096), SENTINEL_SIZE, W(0, 0)),
      PartitionEntry(<<102>>, 0, 0, W(0, 8192), W(0, 4096), W(0, 0)),
      PartitionEntry(Repeat(103, MAX_NAME_LEN), 0, 0, W(65535, 61440), W(0, 4096), W(0, 0)),
      PartitionEntry(<<>>, 0, 0, W(0, 4096), W(0, 4096), W(0, 0)),
      PartitionEntry(Repeat(104, MAX_NAME_LEN + 1), 0, 0, W(0, 4096), W(0, 4096), W(0, 0)),
      PartitionEntry(<<105>>, 0, 0, W(0, 6144), W(0, 4096), W(0, 0)),
      PartitionEntry(<<106>>, 0, 0, W(0, 8192), W(1, 2048), W(0, 0)),
      PartitionEntry(<<>>, 0, 0, W(0, 6145), W(65535, 65534), W(0, 0)) }

InitValidate ==
    /\ input = [entries |-> <<>>, trail |-> <<>>]
    /\ data = <<>>
    /\ offset = 0
    /\ table \in {[md5 |-> None, entries |-> es] : es \in SeqUpTo(ValidatorRecords, MaxTable)}
    /\ pc = "validate"
    /\ err = NoError
    /\ check_overlaps \in BOOLEAN
    /\ index = 0
    /\ type_val = 0
    /\ subtypes = <<>>
    /\ result = None
    /\ analysis = NoAnalysis
    /\ NoManifest
    /\ NoConcurrent
    /\ calls = 1
    /\ first = Outcome(FALSE, NoError)
    /\ checked = <<>>

NextValidate == ValidateStart \/ ValidateEntry \/ CheckOverlaps \/ ValidateAgain

SpecValidate == InitValidate /\ [][NextValidate]_vars

-----------------------------------------------------------------------------
(* parse_partitions_with_validation (parser.py)                            *)

\* lines 140-141: parse_partitions_file has returned the table, and
\* validate_partition_table(table, check_overlaps=validate_overlaps) is called
ValidateParsed ==
    /\ pc = "returned"
    /\ pc' = "validate"
    /\ index' = 0
    /\ UNCHANGED <<input, data, offset, table, err, check_overlaps, type_val,
                   subtypes, result, analysis>>
    /\ UNCHANGED manifestVars
    /\ UNCHANGED concurrentVars
    /\ UNCHANGED callVars

\* the entries of the files handed to parse_partitions_with_validation: two
\* records that pass every rule, one with an empty name and an odd offset, one
\* that fills the name field, the end marker and a bad magic
CheckedEntries ==
    {[magic |-> PARTITION_MAGIC, rec |-> r] :
        r \in { PartitionEntry(<<110, 118, 115>>, 1, 2, W(0, 36864), W(0, 20480), W(0, 0)),
                PartitionEntry(<<102, 97, 99, 116, 111, 114, 121>>, 0, 0, W(0, 57344),
                               W(16, 0), W(0, 0)),
                PartitionEntry(<<>>, 0, 16, W(4660, 22136), SENTINEL_SIZE, W(0, 1)),
                PartitionEntry(Repeat(65, NAME_FIELD_SIZE), 1, 9, W(48, 0), W(0, 4096),
                               W(0, 0)) }}
    \cup {[magic |-> PARTITION_END_MARKER,
           rec |-> PartitionEntry(<<>>, 0, 0, W(0, 0), W(0, 0), W(0, 0))],
          [magic |-> BadMagic, rec |-> FragmentRecord]}

CheckedInputs ==
    [entries : SeqUpTo(CheckedEntries, MaxEntries), trail : {<<>>, <<170, 80>>}]

\* the call parse_partitions_with_validation(file_path, validate_overlaps)
InitParseValidate ==
    /\ input \in CheckedInputs
    /\ data = BuildData(input)
    /\ offset = 0
    /\ table = EmptyTable
    /\ pc = "check_size"
    /\ err = NoError
    /\ check_overlaps \in BOOLEAN
    /\ index = 0
    /\ type_val = 0
    /\ subtypes = <<>>
    /\ result = None
    /\ analysis = NoAnalysis
    /\ NoManifest
    /\ NoConcurrent
    /\ NoCall

NextParseValidate ==
    \/ ParseCheckSize
    \/ ParseEntry
    \/ ValidateParsed
    \/ ValidateStart
    \/ ValidateEntry
    \/ CheckOverlaps

SpecParseValidate == InitParseValidate /\ [][NextParseValidate]_vars

-----------------------------------------------------------------------------
(* find_partition_by_type (utils.py)                                       *)

Range(f) == {f[i] : i \in DOMAIN f}

\* subtypes.index(s): the first position of s in the list, from 0
SubtypeIndex(subs, s) ==
    (CHOOSE k \in 1..Len(subs) : subs[k] = s /\ \A m \in 1..(k - 1) : subs[m] # s) - 1

\* a filter that forgets the type
MatchesAnyType(entries, t, subs) ==
    SelectSeq(entries, LAMBDA e : e.subtype \in Range(subs))

\* [e for e in table.entries if e.type_val == type_val and e.subtype in subtypes]
Matches(entries, t, subs) ==
    SelectSeq(entries, LAMBDA e : e.type_val = t /\ e.subtype \in Range(subs))

\* a sort key with the offset before the priority: (e.offset, index)
PriorityKeyLtOffsetFirst(subs, a, b) ==
    \/ WLt(a.offset, b.offset)
    \/ /\ a.offset = b.offset
       /\ SubtypeIndex(subs, a.subtype) < SubtypeIndex(subs, b.subtype)

\* key(a) < key(b) for key = (subtypes.index(e.subtype), e.offset)
PriorityKeyLt(subs, a, b) ==
    \/ SubtypeIndex(subs, a.subtype) < SubtypeIndex(subs, b.subtype)
    \/ /\ SubtypeIndex(subs, a.subtype) = SubtypeIndex(subs, b.subtype)
       /\ WLt(a.offset, b.offset)

\* sorted(matches, key=...) is stable: an entry goes after every entry whose
\* key is not greater than its own
RECURSIVE InsertByPriority(_, _, _)
InsertByPriority(subs, sorted, e) ==
    IF sorted = <<>> THEN <<e>>
    ELSE IF PriorityKeyLt(subs, e, Head(sorted)) THEN <<e>> \o sorted
    ELSE <<Head(sorted)>> \o InsertByPriority(subs, Tail(sorted), e)

RECURSIVE SortByPriority(_, _)
SortByPriority(subs, es) ==
    IF es = <<>> THEN <<>>
    ELSE InsertByPriority(subs, SortByPriority(subs, SubSeq(es, 1, Len(es) - 1)),
                          es[Len(es)])

\* the value find_partition_by_type returns
FindPartitionByType(tbl, t, subs) ==
    IF tbl.entries = <<>> THEN None
    ELSE LET matches == Matches(tbl.entries, t, subs) IN
         IF matches = <<>> THEN None
         ELSE Some(SortByPriority(subs, matches)[1].offset)

\* one call of find_partition_by_type(table, type_val, subtypes)
Find ==
    /\ pc = "find"
    /\ result' = FindPartitionByType(table, type_val, subtypes)
    /\ pc' = "done"
    /\ UNCHANGED <<input, data, offset, table, err, check_overlaps, index,
                   type_val, subtypes, analysis>>
    /\ UNCHANGED manifestVars
    /\ UNCHANGED concurrentVars
    /\ UNCHANGED callVars

\* records handed to the selector: app records of subtypes ota_0, ota_1, factory
\* and test, data records of subtypes littlefs, 0x82 and 0x10, one at offset 0
SelectorRecords ==
    { PartitionEntry(<<97>>, 0, 16, W(2, 0), W(16, 0), W(0, 0)),
      PartitionEntry(<<98>>, 0, 16, W(3, 0), W(16, 0), W(0, 0)),
      PartitionEntry(<<99>>, 0, 0, W(1, 0), W(16, 0), W(0, 0)),
      PartitionEntry(<<100>>, 0, 0, W(0, 0), W(16, 0), W(0, 0)),
      PartitionEntry(<<101>>, 0, 17, W(21, 0), W(16, 0), W(0, 0)),
      PartitionEntry(<<102>>, 0, 32, W(0, 32768), W(16, 0), W(0, 0)),
      PartitionEntry(<<103>>, 1, 9, W(48, 0), W(16, 0), W(0, 0)),
      PartitionEntry(<<104>>, 1, 130, W(41, 0), W(16, 0), W(0, 0)),
      PartitionEntry(<<105>>, 1, 16, W(0, 36864), W(0, 4096), W(0, 0)) }

\* the subtype lists asked for: those of buildManifest (service.py lines 547,
\* 550, 553), the empty list, a reversed list and one with a repeated subtype
SubtypeLists ==
    { <<16, 0>>, <<17, 16, 0>>, <<9, 8, 130>>, <<>>, <<0, 16>>, <<0, 16, 0>> }

InitFind ==
    /\ input = [entries |-> <<>>, trail |-> <<>>]
    /\ data = <<>>
    /\ offset = 0
    /\ table \in {[md5 |-> None, entries |-> es] : es \in SeqUpTo(SelectorRecords, MaxTable)}
    /\ pc = "find"
    /\ err = NoError
    /\ check_overlaps = FALSE
    /\ index = 0
    /\ type_val \in {0, 1}
    /\ subtypes \in SubtypeLists
    /\ result = None
    /\ analysis = NoAnalysis
    /\ NoManifest
    /\ NoConcurrent
    /\ NoCall

NextFind == Find

SpecFind == InitFind /\ [][NextFind]_vars

-----------------------------------------------------------------------------
(* format_analysis (formatters.py)                                         *)

\* a bucket list without the smallest bucket
FlashPowersFrom4 == <<4, 8, 16>>

\* for power in [2, 4, 8, 16]
FlashPowers == <<2, 4, 8, 16>>

\* a sum kept in 32 bits: (e.offset + e.size) % 2^32
EndOfWrapped(e) ==
    <<(e.offset[1] + e.size[1] + ((e.offset[2] + e.size[2]) \div WORD)) % WORD,
      (e.offset[2] + e.size[2]) % WORD>>

\* e.offset + e.size
EndOf(e) == WAdd(e.offset, e.size)

\* max(table.entries, key=lambda e: e.offset + e.size): the first entry whose
\* key no entry exceeds
RECURSIVE MaxByEnd(_)
MaxByEnd(es) ==
    IF Len(es) = 1 THEN es[1]
    ELSE LET m == MaxByEnd(SubSeq(es, 1, Len(es) - 1)) IN
         IF WLt(EndOf(m), EndOf(es[Len(es)])) THEN es[Len(es)] ELSE m

\* flash_size_bytes
FlashSizeBytes(entries) ==
    IF entries # <<>> THEN EndOf(MaxByEnd(entries)) ELSE W(0, 0)

\* a bucket test that excludes the bucket's own capacity
FitsPowerStrict(bytes, power) == WLt(bytes, W(16 * power, 0))

\* flash_size_mb <= power, for flash_size_mb = flash_size_bytes / (1024 * 1024):
\* the float quotient of an integer below 2^53 by 2^20 is exact, so the test is
\* flash_size_bytes <= power * 2^20, and 2^20 = 16 * 65536
FitsPower(bytes, power) == WLe(bytes, W(16 * power, 0))

\* int(flash_size_mb) + (1 if flash_size_mb % 1 else 0)
RoundUpMegabytes(bytes) ==
    (bytes[1] \div 16) + (IF bytes[1] % 16 # 0 \/ bytes[2] # 0 THEN 1 ELSE 0)

\* flash_size_str: the first bucket the size fits, else the for loop's else branch
FlashSizeStr(bytes) ==
    LET fit == {k \in 1..Len(FlashPowers) : FitsPower(bytes, FlashPowers[k])} IN
    IF fit # {} THEN MB(FlashPowers[CHOOSE k \in fit : \A m \in fit : k <= m])
    ELSE MB(RoundUpMegabytes(bytes))

\* the digits of format(n, "x"), most significant first
RECURSIVE HexDigits(_)
HexDigits(n) == IF n < 16 THEN <<n>> ELSE HexDigits(n \div 16) \o <<n % 16>>

\* PartitionEntry.offset_hex: f"0x{self.offset:x}"
OffsetHex(off) ==
    [prefix |-> "0x",
     digits |-> IF off[1] = 0 THEN HexDigits(off[2])
                ELSE HexDigits(off[1])
                     \o <<off[2] \div 4096, (off[2] \div 256) % 16,
                          (off[2] \div 16) % 16, off[2] % 16>>]

\* a dict that lists a new key before the keys it already holds
DictSetFront(d, key, value) ==
    IF \E i \in 1..Len(d) : d[i][1] = key
    THEN [i \in 1..Len(d) |-> IF d[i][1] = key THEN <<key, value>> ELSE d[i]]
    ELSE <<<<key, value>>>> \o d

\* d[key] = value on a dict kept as a sequence of <<key, value>> pairs: a new
\* key is added at the end, a known key keeps its place and takes the value
DictSet(d, key, value) ==
    IF \E i \in 1..Len(d) : d[i][1] = key
    THEN [i \in 1..Len(d) |-> IF d[i][1] = key THEN <<key, value>> ELSE d[i]]
    ELSE Append(d, <<key, value>>)

\* {entry.name: entry.offset_hex for entry in table.entries}
RECURSIVE PartitionsDict(_)
PartitionsDict(es) ==
    IF es = <<>> THEN <<>>
    ELSE DictSet(PartitionsDict(SubSeq(es, 1, Len(es) - 1)),
                 es[Len(es)].name, OffsetHex(es[Len(es)].offset))

\* the analysis dict that format_analysis serialises with json.dumps
FormatAnalysis(tbl) ==
    [flash_size_mb   |-> FlashSizeStr(FlashSizeBytes(tbl.entries)),
     flash_size_bytes |-> FlashSizeBytes(tbl.entries),
     partition_count |-> Len(tbl.entries),
     partitions      |-> PartitionsDict(tbl.entries)]

\* one call of format_analysis(table)
Analyze ==
    /\ pc = "analyze"
    /\ analysis' = FormatAnalysis(table)
    /\ pc' = "done"
    /\ UNCHANGED <<input, data, offset, table, err, check_overlaps, index,
                   type_val, subtypes, result>>
    /\ UNCHANGED manifestVars
    /\ UNCHANGED concurrentVars
    /\ UNCHANGED callVars

\* records handed to the analyzer: ends of 0, of exactly 2, 4, 8, 16 and 17 MB,
\* of one byte more than 2, 4 and 16 MB, the scenario records and a sentinel size
AnalyzerRecords ==
    { PartitionEntry(<<110, 118, 115>>, 1, 2, W(0, 36864), W(0, 20480), W(0, 0)),
      PartitionEntry(<<102, 97, 99, 116, 111, 114, 121>>, 0, 0, W(0, 57344), W(16, 0), W(0, 0)),
      PartitionEntry(<<97>>, 0, 0, W(0, 0), W(0, 0), W(0, 0)),
      PartitionEntry(<<98>>, 0, 0, W(0, 0), W(32, 0), W(0, 0)),
      PartitionEntry(<<98>>, 0, 0, W(0, 1), W(32, 0), W(0, 0)),
      PartitionEntry(<<99>>, 0, 0, W(0, 0), W(64, 0), W(0, 0)),
      PartitionEntry(<<100>>, 0, 0, W(0, 1), W(64, 0), W(0, 0)),
      PartitionEntry(<<101>>, 0, 0, W(64, 0), W(64, 0), W(0, 0)),
      PartitionEntry(<<102>>, 0, 0, W(0, 0), W(256, 0), W(0, 0)),
      PartitionEntry(<<103>>, 0, 0, W(0, 1), W(256, 0), W(0, 0)),
      PartitionEntry(<<104>>, 0, 0, W(16, 0), W(256, 0), W(0, 0)),
      PartitionEntry(<<105>>, 0, 0, W(0, 4096), SENTINEL_SIZE, W(0, 0)) }

InitAnalyze ==
    /\ input = [entries |-> <<>>, trail |-> <<>>]
    /\ data = <<>>
    /\ offset = 0
    /\ table \in {[md5 |-> None, entries |-> es] : es \in SeqUpTo(AnalyzerRecords, MaxTable)}
    /\ pc = "analyze"
    /\ err = NoError
    /\ check_overlaps = FALSE
    /\ index = 0
    /\ type_val = 0
    /\ subtypes = <<>>
    /\ result = None
    /\ analysis = NoAnalysis
    /\ NoManifest
    /\ NoConcurrent
    /\ NoCall

NextAnalyze == Analyze

SpecAnalyze == InitAnalyze /\ [][NextAnalyze]_vars

-----------------------------------------------------------------------------
(* buildManifest (service.py): flash size and install offsets               *)
(* A str of this part is the sequence of its characters.                    *)

\* the string literals between the parentheses of BIGDB_8MB, in order
BIGDB_8MB_LITERALS ==
    << \* "picomputer-s3"
       <<"p", "i", "c", "o", "m", "p", "u", "t", "e", "r", "-", "s", "3">>,
       \* "unphone"
       <<"u", "n", "p", "h", "o", "n", "e">>,
       \* "seeed-sensecap-indicator"
       <<"s", "e", "e", "e", "d", "-", "s", "e", "n", "s", "e", "c", "a", "p", "-", "i", "n", "d", "i", "c", "a", "t", "o", "r">>,
       \* "crowpanel-esp32s3"
       <<"c", "r", "o", "w", "p", "a", "n", "e", "l", "-", "e", "s", "p", "3", "2", "s", "3">>,
       \* "heltec_capsule_sensor_v3"
       <<"h", "e", "l", "t", "e", "c", "_", "c", "a", "p", "s", "u", "l", "e", "_", "s", "e", "n", "s", "o", "r", "_", "v", "3">>,
       \* "heltec-v3"
       <<"h", "e", "l", "t", "e", "c", "-", "v", "3">>,
       \* "heltec-vision-master-e213"
       <<"h", "e", "l", "t", "e", "c", "-", "v", "i", "s", "i", "o", "n", "-", "m", "a", "s", "t", "e", "r", "-", "e", "2", "1", "3">>,
       \* "heltec-vision-master-e290"
       <<"h", "e", "l", "t", "e", "c", "-", "v", "i", "s", "i", "o", "n", "-", "m", "a", "s", "t", "e", "r", "-", "e", "2", "9", "0">>,
       \* "heltec-vision-master-t190"
       <<"h", "e", "l", "t", "e", "c", "-", "v", "i", "s", "i", "o", "n", "-", "m", "a", "s", "t", "e", "r", "-", "t", "1", "9", "0">>,
       \* "heltec-wireless-paper"
       <<"h", "e", "l", "t", "e", "c", "-", "w", "i", "r", "e", "l", "e", "s", "s", "-", "p", "a", "p", "e", "r">>,
       \* "heltec-wireless-tracker"
       <<"h", "e", "l", "t", "e", "c", "-", "w", "i", "r", "e", "l", "e", "s", "s", "-", "t", "r", "a", "c", "k", "e", "r">>,
       \* "heltec-wsl-v3"
       <<"h", "e", "l", "t", "e", "c", "-", "w", "s", "l", "-", "v", "3">>,
       \* "icarus"
       <<"i", "c", "a", "r", "u", "s">>,
       \* "seeed-xiao-s3"
       <<"s", "e", "e", "e", "d", "-", "x", "i", "a", "o", "-", "s", "3">>,
       \* "tbeam-s3-core"
       <<"t", "b", "e", "a", "m", "-", "s", "3", "-", "c", "o", "r", "e">>,
       \* "tracksenger"
       <<"t", "r", "a", "c", "k", "s", "e", "n", "g", "e", "r">> >>

\* the string literals between the parentheses of BIGDB_16MB, in order
BIGDB_16MB_LITERALS ==
    << \* "t-deck"
       <<"t", "-", "d", "e", "c", "k">>,
       \* "mesh-tab"
       <<"m", "e", "s", "h", "-", "t", "a", "b">>,
       \* "t-energy-s3"
       <<"t", "-", "e", "n", "e", "r", "g", "y", "-", "s", "3">>,
       \* "dreamcatcher"
       <<"d", "r", "e", "a", "m", "c", "a", "t", "c", "h", "e", "r">>,
       \* "ESP32-S3-Pico"
       <<"E", "S", "P", "3", "2", "-", "S", "3", "-", "P", "i", "c", "o">>,
       \* "m5stack-cores3"
       <<"m", "5", "s", "t", "a", "c", "k", "-", "c", "o", "r", "e", "s", "3">>,
       \* "station-g2"
       <<"s", "t", "a", "t", "i", "o", "n", "-", "g", "2">>,
       \* "t-eth-elite"
       <<"t", "-", "e", "t", "h", "-", "e", "l", "i", "t", "e">>,
       \* "t-watch-s3"
       <<"t", "-", "w", "a", "t", "c", "h", "-", "s", "3">>,
       \* "elecrow-adv-35-tft"
       <<"e", "l", "e", "c", "r", "o", "w", "-", "a", "d", "v", "-", "3", "5", "-", "t", "f", "t">>,
       \* "elecrow-adv-24-28-tft"
       <<"e", "l", "e", "c", "r", "o", "w", "-", "a", "d", "v", "-", "2", "4", "-", "2", "8", "-", "t", "f", "t">>,
       \* "elecrow-adv1-43-50-70-tft"
       <<"e", "l", "e", "c", "r", "o", "w", "-", "a", "d", "v", "1", "-", "4", "3", "-", "5", "0", "-", "7", "0", "-", "t", "f", "t">> >>

\* adjacent string literals with no comma between them: one concatenated str
RECURSIVE ConcatLiterals(_)
ConcatLiterals(ls) ==
    IF ls = <<>> THEN <<>> ELSE ls[1] \o ConcatLiterals(Tail(ls))

BIGDB_8MB == ConcatLiterals(BIGDB_8MB_LITERALS)

BIGDB_16MB == ConcatLiterals(BIGDB_16MB_LITERALS)

\* a membership test that never succeeds
StrInNever(sub, str) == FALSE

\* sub in str, for two str values: sub is a substring of str
StrIn(sub, str) ==
    \E i \in 0..(Len(str) - Len(sub)) : SubSeq(str, i + 1, i + Len(sub)) = sub

\* the str literals of the chip tests
S3 == <<"s", "3">>

V3 == <<"-", "v", "3">>

TDECK == <<"t", "-", "d", "e", "c", "k">>

WIRELESS_PAPER == <<"w", "i", "r", "e", "l", "e", "s", "s", "-", "p", "a", "p", "e", "r">>

WIRELESS_TRACKER == <<"w", "i", "r", "e", "l", "e", "s", "s", "-", "t", "r", "a", "c", "k", "e", "r">>

C3 == <<"c", "3">>

C6 == <<"c", "6">>

\* lines 538-560: the dict buildManifest reads from a decoded table; the value
\* of flash_size_mb is a str of digits and "MB", which json.dumps and
\* json.loads hand back unchanged
OffsetsOfTable(tbl) ==
    Some([flash_size      |-> FormatAnalysis(tbl).flash_size_mb,
          fw_offset       |-> FindPartitionByType(tbl, 0, <<16, 0>>),
          bleota_offset   |-> FindPartitionByType(tbl, 0, <<17, 16, 0>>),
          littlefs_offset |-> FindPartitionByType(tbl, 1, <<9, 8, 130>>)])

\* an except clause that keeps what the records decoded before the failure give
OffsetsOfPartialTable(tbl) == OffsetsOfTable(tbl)

\* lines 581-583: the except clause, partitions_offsets = None
OffsetsAfterFailure(tbl) == None

\* the truth value of devinfo.get("flashSize", None): a non-empty str
Truthy(x) == x.some /\ x.val # <<>>

\* a flash size that lets the declared flashSize win over the decoded table
ResolveFlashSizeDeclaredFirst(po, info, t) ==
    IF Truthy(info.flashSize) THEN info.flashSize.val
    ELSE IF po.some /\ po.val.flash_size # <<>> THEN po.val.flash_size
    ELSE IF StrIn(t, BIGDB_8MB) THEN MB(8)
    ELSE IF StrIn(t, BIGDB_16MB) THEN MB(16)
    ELSE MB(4)

\* lines 587-599: the flash size
ResolveFlashSize(po, info, t) ==
    IF po.some /\ po.val.flash_size # <<>> THEN po.val.flash_size
    ELSE IF Truthy(info.flashSize) THEN info.flashSize.val
    ELSE IF StrIn(t, BIGDB_8MB) THEN MB(8)
    ELSE IF StrIn(t, BIGDB_16MB) THEN MB(16)
    ELSE MB(4)

\* a test that takes the table's offsets only when all three were found
FoundAll(po, key) ==
    /\ po.some
    /\ po.val.fw_offset.some /\ po.val.bleota_offset.some /\ po.val.littlefs_offset.some

\* partitions_offsets and partitions_offsets.get(key) is not None
Found(po, key) == po.some /\ po.val[key].some

\* the small-flash constant whatever the flash size
FallbackLittlefsSmall(fs) == W(48, 0)

\* lines 619-624: 0x650000, 0x5D0000, 0x260000
FallbackBleota(fs) ==
    IF fs = MB(16) THEN W(101, 0) ELSE IF fs = MB(8) THEN W(93, 0) ELSE W(38, 0)

\* lines 635-640: 0xc90000, 0x670000, 0x300000
FallbackLittlefs(fs) ==
    IF fs = MB(16) THEN W(201, 0) ELSE IF fs = MB(8) THEN W(103, 0) ELSE W(48, 0)

\* lines 605-609
InstallFwOffset(po) ==
    IF Found(po, "fw_offset") THEN po.val.fw_offset.val ELSE W(0, 0)

\* a secondary-image offset that is the hardcoded one whatever the table gives
InstallBleotaOffsetHardcoded(po, fs) == FallbackBleota(fs)

\* lines 614-624
InstallBleotaOffset(po, fs) ==
    IF Found(po, "bleota_offset") THEN po.val.bleota_offset.val ELSE FallbackBleota(fs)

\* lines 630-640
InstallLittlefsOffset(po, fs) ==
    IF Found(po, "littlefs_offset") THEN po.val.littlefs_offset.val
    ELSE FallbackLittlefs(fs)

\* line 652: the test of the ESP32-S3 branch
IsS3(t, info) ==
    \/ StrIn(S3, t) \/ StrIn(V3, t) \/ StrIn(TDECK, t)
    \/ StrIn(WIRELESS_PAPER, t) \/ StrIn(WIRELESS_TRACKER, t)
    \/ info.chip = "esp32s3"

\* lines 651-668: chip_family; avail is the dict of getAvailableFirmwares
ChipFamily(t, info, avail) ==
    IF IsS3(t, info) THEN "ESP32-S3"
    ELSE IF StrIn(C3, t) \/ info.chip = "esp32c3" THEN "ESP32-C3"
    ELSE IF StrIn(C6, t) \/ info.chip = "esp32c6" THEN "ESP32-C6"
    ELSE IF t \in avail.uf2devices THEN "NRF52"
    ELSE IF t \in avail.espdevices THEN "ESP32"
    ELSE IF t \in avail.rp2040devices THEN "RP2040"
    ELSE "ESP32"

\* lines 649-660: bleotav
Bleotav(t, info) ==
    IF IsS3(t, info) THEN "mt-esp32s3-ota"
    ELSE IF StrIn(C3, t) \/ info.chip = "esp32c3" THEN "bleota-c3"
    ELSE IF StrIn(C6, t) \/ info.chip = "esp32c6" THEN "bleota-c3"
    ELSE "mt-esp32-ota"

\* a part of builds[0]["parts"]: the p parameter of its path ("" when the
\* path has none) and its offset
Part(p, off) == [p |-> p, offset |-> off]

\* lines 673-697: the parts of the manifest; update_offset is 0x10000
Parts(chip_family, u, fwt, bleotav, fw, bleota, littlefs) ==
    IF chip_family \in {"NRF52", "RP2040"} THEN <<>>
    ELSE IF u = "1" THEN <<Part("", W(1, 0))>>
    ELSE IF fwt = "meshcore" THEN <<Part("fw", fw)>>
    ELSE <<Part("fw", fw), Part(bleotav, bleota), Part("littlefs", littlefs)>>

\* device ids
HELTEC_V3 == <<"h", "e", "l", "t", "e", "c", "-", "v", "3">>

TBEAM == <<"t", "b", "e", "a", "m">>

RAK4631 == <<"r", "a", "k", "4", "6", "3", "1">>

\* lines 514-536: the manifest skeleton, partitions_offsets = None, and the
\* test that decides whether partitions.bin is read
ManifestOpen ==
    /\ pc = "manifest"
    /\ manifest' = EmptyManifest(request.t)
    /\ partitions_offsets' = None
    /\ IF rootFolder /\ is_file
       THEN /\ data' = BuildData(input)
            /\ pc' = "check_size"
       ELSE /\ pc' = "resolve"
            /\ UNCHANGED data
    /\ UNCHANGED <<input, offset, table, err, check_overlaps, index, type_val,
                   subtypes, result, analysis>>
    /\ UNCHANGED <<request, rootFolder, fw_type, is_file, devinfo, flashsize,
                   install_fw_offset, install_bleota_offset,
                   install_littlefs_offset>>
    /\ UNCHANGED callVars
    /\ UNCHANGED concurrentVars

\* lines 538-560: parse_partitions_file returned a table
ManifestParsed ==
    /\ pc = "returned"
    /\ analysis' = FormatAnalysis(table)
    /\ partitions_offsets' = OffsetsOfTable(table)
    /\ pc' = "resolve"
    /\ UNCHANGED <<input, data, offset, table, err, check_overlaps, index,
                   type_val, subtypes, result>>
    /\ UNCHANGED <<request, rootFolder, fw_type, is_file, devinfo, flashsize,
                   install_fw_offset, install_bleota_offset,
                   install_littlefs_offset, manifest>>
    /\ UNCHANGED callVars
    /\ UNCHANGED concurrentVars

\* lines 581-583: parse_partitions_file raised; err stays the caught exception
ManifestParseFailed ==
    /\ pc = "raised"
    /\ partitions_offsets' = OffsetsAfterFailure(table)
    /\ pc' = "resolve"
    /\ UNCHANGED <<input, data, offset, table, err, check_overlaps, index,
                   type_val, subtypes, result, analysis>>
    /\ UNCHANGED <<request, rootFolder, fw_type, is_file, devinfo, flashsize,
                   install_fw_offset, install_bleota_offset,
                   install_littlefs_offset, manifest>>
    /\ UNCHANGED callVars
    /\ UNCHANGED concurrentVars

\* lines 585-643: the flash size, then the three offsets
ManifestResolve ==
    /\ pc = "resolve"
    /\ flashsize' = ResolveFlashSize(partitions_offsets, devinfo, request.t)
    /\ install_fw_offset' = InstallFwOffset(partitions_offsets)
    /\ install_bleota_offset' = InstallBleotaOffset(partitions_offsets, flashsize')
    /\ install_littlefs_offset' = InstallLittlefsOffset(partitions_offsets, flashsize')
    /\ pc' = "build"
    /\ UNCHANGED <<input, data, offset, table, err, check_overlaps, index,
                   type_val, subtypes, result, analysis>>
    /\ UNCHANGED <<request, rootFolder, fw_type, is_file, devinfo,
                   partitions_offsets, manifest>>
    /\ UNCHANGED callVars
    /\ UNCHANGED concurrentVars

\* the dicts getAvailableFirmwares may return for the devices of the model
AvailableFirmwares ==
    { [uf2devices |-> {}, espdevices |-> {}, rp2040devices |-> {}],
      [uf2devices |-> {RAK4631}, espdevices |-> {TBEAM}, rp2040devices |-> {}],
      [uf2devices |-> {}, espdevices |-> {TBEAM}, rp2040devices |-> {RAK4631}] }

\* lines 645-699: the chip family and the parts; the manifest is returned
ManifestBuild ==
    /\ pc = "build"
    /\ \E avail \in AvailableFirmwares :
          LET chip_family == ChipFamily(request.t, devinfo, avail) IN
          manifest' = [manifest EXCEPT
                          !.flashsize = flashsize,
                          !.chipFamily = chip_family,
                          !.pathota = (chip_family = "NRF52"),
                          !.parts = Parts(chip_family, request.u, fw_type,
                                          Bleotav(request.t, devinfo),
                                          install_fw_offset, install_bleota_offset,
                                          install_littlefs_offset)]
    /\ pc' = "manifest_done"
    /\ UNCHANGED <<input, data, offset, table, err, check_overlaps, index,
                   type_val, subtypes, result, analysis>>
    /\ UNCHANGED <<request, rootFolder, fw_type, is_file, devinfo,
                   partitions_offsets, flashsize, install_fw_offset,
                   install_bleota_offset, install_littlefs_offset>>
    /\ UNCHANGED callVars
    /\ UNCHANGED concurrentVars

\* records of the partitions.bin files: an ota_0, a factory at offset 0, an
\* ota_1, a filesystem, an nvs that ends at 16 MB and covers the others, a
\* filesystem at a misaligned offset that runs to the end of flash, and an
\* ota_0 with an empty name
ManifestRecords ==
    { \* ("app0", app, ota_0, 0x10000, 0x1F0000, 0)
      PartitionEntry(<<97, 112, 112, 48>>, 0, 16, W(1, 0), W(31, 0), W(0, 0)),
      \* ("factory", app, factory, 0x0, 0x10000, 0)
      PartitionEntry(<<102, 97, 99, 116, 111, 114, 121>>, 0, 0, W(0, 0), W(1, 0), W(0, 0)),
      \* ("app1", app, ota_1, 0x200000, 0x200000, 0)
      PartitionEntry(<<97, 112, 112, 49>>, 0, 17, W(32, 0), W(32, 0), W(0, 0)),
      \* ("spiffs", data, spiffs, 0x400000, 0x400000, 0)
      PartitionEntry(<<115, 112, 105, 102, 102, 115>>, 1, 130, W(64, 0), W(64, 0), W(0, 0)),
      \* ("nvs", data, nvs, 0x9000, 0xFF7000, 0)
      PartitionEntry(<<110, 118, 115>>, 1, 2, W(0, 36864), W(255, 28672), W(0, 0)),
      \* ("fs", data, littlefs, 0x300800, 0xFFFFFFFF, 0)
      PartitionEntry(<<102, 115>>, 1, 9, W(48, 2048), SENTINEL_SIZE, W(0, 0)),
      \* ("", app, ota_0, 0x20000, 0x1000, 0)
      PartitionEntry(<<>>, 0, 16, W(2, 0), W(0, 4096), W(0, 0)) }

\* the 32-byte entries of the files: the records, an end marker, a bad magic
ManifestEntries ==
    {[magic |-> PARTITION_MAGIC, rec |-> r] : r \in ManifestRecords}
    \cup {[magic |-> PARTITION_END_MARKER,
           rec |-> PartitionEntry(<<>>, 0, 0, W(0, 0), W(0, 0), W(0, 0))],
          [magic |-> BadMagic, rec |-> FragmentRecord]}

\* the first 2 bytes of an entry
FileFragment ==
    SubSeq(PackEntry([magic |-> PARTITION_MAGIC, rec |-> FragmentRecord]), 1, 2)

\* the files: up to MaxFileEntries whole entries, and the files cut short: 2
\* bytes, and one record followed by 2 bytes
ManifestFiles ==
    [entries : SeqUpTo(ManifestEntries, MaxFileEntries), trail : {<<>>}]
    \cup {[entries |-> <<>>, trail |-> FileFragment]}
    \cup {[entries |-> <<[magic |-> PARTITION_MAGIC, rec |-> r]>>, trail |-> FileFragment] :
            r \in ManifestRecords}

\* the device ids: one of each list, one that is in neither list but is a
\* substring of the str BIGDB_8MB, and one that is in neither list and in
\* neither str
DeviceIds == {HELTEC_V3, TDECK, TBEAM, RAK4631}

\* device.info contents: no key, a declared flash size of 16MB, one that is no
\* class of the code, an empty one, and a chip of each kind
DevInfos ==
    { [flashSize |-> None, chip |-> ""],
      [flashSize |-> Some(MB(16)), chip |-> "esp32c3"],
      [flashSize |-> Some(MB(32)), chip |-> "esp32s3"],
      [flashSize |-> Some(<<>>), chip |-> "esp32c6"] }

InitManifest ==
    /\ request \in [t : DeviceIds, u : {"1", "2"}]
    /\ fw_type \in {"meshtastic", "meshcore"}
    /\ devinfo \in DevInfos
    /\ rootFolder \in BOOLEAN
    /\ is_file \in (IF rootFolder THEN BOOLEAN ELSE {FALSE})
    /\ input \in (IF is_file THEN ManifestFiles ELSE {[entries |-> <<>>, trail |-> <<>>]})
    /\ data = <<>>
    /\ offset = 0
    /\ table = EmptyTable
    /\ pc = "manifest"
    /\ err = NoError
    /\ check_overlaps = FALSE
    /\ index = 0
    /\ type_val = 0
    /\ subtypes = <<>>
    /\ result = None
    /\ analysis = NoAnalysis
    /\ partitions_offsets = None
    /\ flashsize = MB(4)
    /\ install_fw_offset = <<0, 0>>
    /\ install_bleota_offset = <<0, 0>>
    /\ install_littlefs_offset = <<0, 0>>
    /\ manifest = EmptyManifest(<<>>)
    /\ NoCall
    /\ NoConcurrent

NextManifest ==
    \/ ManifestOpen
    \/ ParseCheckSize
    \/ ParseEntry
    \/ ManifestParsed
    \/ ManifestParseFailed
    \/ ManifestResolve
    \/ ManifestBuild

SpecManifest == InitManifest /\ [][NextManifest]_vars

-----------------------------------------------------------------------------
(* Two buildManifest calls served together (service.py)                    *)
(* A call runs without interruption from one await to the next.            *)

Calls == {1, 2}

\* one set of local variables that every call uses
ScopeShared(c) == 1

\* the local variables of a call of a coroutine function belong to that call
Scope(c) == c

\* the local variables of a call that has not started
NewFrame ==
    [t |-> <<>>, u |-> "1", rootFolder |-> FALSE, fw_type |-> "meshtastic",
     devinfo |-> [flashSize |-> None, chip |-> ""], data |-> <<>>,
     partitions_offsets |-> None, flashsize |-> MB(4),
     install_fw_offset |-> W(0, 0), install_bleota_offset |-> W(0, 0),
     install_littlefs_offset |-> W(0, 0), manifest |-> EmptyManifest(<<>>)]

\* lines 512-527: the arguments are bound and the manifest skeleton is built
FrameEntered(f, a) == [f EXCEPT !.t = a.t, !.u = a.u, !.manifest = EmptyManifest(a.t)]

\* line 528: rootFolder, src, fw_type = await getRootFolder(t, v, src)
FrameRooted(f, env) == [f EXCEPT !.rootFolder = env.rootFolder, !.fw_type = env.fw_type]

\* lines 529-532: devinfo = await loadInfo(t, v, rootFolder), then
\* partitions_offsets = None
FrameInfo(f, env) == [f EXCEPT !.devinfo = env.devinfo, !.partitions_offsets = None]

\* parser.py line 55: data = await f.read()
FrameRead(f, env) == [f EXCEPT !.data = env.file]

\* lines 538-583: the table is decoded from the bytes read and the dict is
\* read from it, or the except clause sets partitions_offsets = None
FrameDecoded(f) ==
    LET r == ParsePartitions(f.data) IN
    [f EXCEPT !.partitions_offsets = IF r.pc = "returned" THEN OffsetsOfTable(r.table)
                                     ELSE OffsetsAfterFailure(r.table)]

\* lines 585-643: the flash size, then the three offsets
FrameResolved(f) ==
    LET fs == ResolveFlashSize(f.partitions_offsets, f.devinfo, f.t) IN
    [f EXCEPT !.flashsize = fs,
              !.install_fw_offset = InstallFwOffset(f.partitions_offsets),
              !.install_bleota_offset = InstallBleotaOffset(f.partitions_offsets, fs),
              !.install_littlefs_offset = InstallLittlefsOffset(f.partitions_offsets, fs)]

\* lines 652-661: no chip test matches, so getAvailableFirmwares is awaited
NeedsAvailable(f) ==
    /\ ~IsS3(f.t, f.devinfo)
    /\ ~(StrIn(C3, f.t) \/ f.devinfo.chip = "esp32c3")
    /\ ~(StrIn(C6, f.t) \/ f.devinfo.chip = "esp32c6")

\* lines 651-697: the chip family and the parts are put into the manifest
FrameBuilt(f, avail) ==
    LET chip_family == ChipFamily(f.t, f.devinfo, avail) IN
    [f EXCEPT !.manifest = [@ EXCEPT
                              !.flashsize = f.flashsize,
                              !.chipFamily = chip_family,
                              !.pathota = (chip_family = "NRF52"),
                              !.parts = Parts(chip_family, f.u, f.fw_type,
                                              Bleotav(f.t, f.devinfo),
                                              f.install_fw_offset,
                                              f.install_bleota_offset,
                                              f.install_littlefs_offset)]]

\* what the install directories hold for the device the call names: the path
\* of every file read is built from the local t
EnvOf(c) == world[frames[Scope(c)].t]

\* the call goes on from the resolution of the flash size and the offsets: to
\* the await of getAvailableFirmwares, or without an await to its return
RunOn(c, f) ==
    LET g == FrameResolved(f) IN
    IF NeedsAvailable(g)
    THEN /\ frames' = [frames EXCEPT ![Scope(c)] = g]
         /\ cpc' = [cpc EXCEPT ![c] = "getAvailableFirmwares"]
         /\ UNCHANGED manifests
    ELSE LET h == FrameBuilt(g, world[g.t].avail) IN
         /\ frames' = [frames EXCEPT ![Scope(c)] = h]
         /\ cpc' = [cpc EXCEPT ![c] = "done"]
         /\ manifests' = [manifests EXCEPT ![c] = Some(h.manifest)]

\* call c takes a step: the ghost records whether the other call has started
\* and is suspended at an await
Mix(c) ==
    mixed' = [mixed EXCEPT ![c] = @ \/ \E d \in Calls \ {c} : cpc[d] \notin {"start", "done"}]

\* the variables of the one-call model, which no call of this part uses
oneCallVars == <<input, data, offset, table, pc, err, check_overlaps, index,
                 type_val, subtypes, result, analysis, manifestVars, callVars>>

\* lines 512-528: call c starts and runs to await getRootFolder
CallEnter(c) ==
    /\ cpc[c] = "start"
    /\ frames' = [frames EXCEPT ![Scope(c)] = FrameEntered(NewFrame, args[c])]
    /\ cpc' = [cpc EXCEPT ![c] = "getRootFolder"]
    /\ UNCHANGED <<world, args, manifests>>
    /\ Mix(c)
    /\ UNCHANGED oneCallVars

\* lines 528-529: getRootFolder returned; the call runs to await loadInfo
CallRootFolder(c) ==
    /\ cpc[c] = "getRootFolder"
    /\ frames' = [frames EXCEPT ![Scope(c)] = FrameRooted(@, EnvOf(c))]
    /\ cpc' = [cpc EXCEPT ![c] = "loadInfo"]
    /\ UNCHANGED <<world, args, manifests>>
    /\ Mix(c)
    /\ UNCHANGED oneCallVars

\* lines 529-535: loadInfo returned; with a root folder the call runs to await
\* isfile, without one it runs on from line 585
CallLoadInfo(c) ==
    /\ cpc[c] = "loadInfo"
    /\ LET f == FrameInfo(frames[Scope(c)], EnvOf(c)) IN
       IF f.rootFolder
       THEN /\ frames' = [frames EXCEPT ![Scope(c)] = f]
            /\ cpc' = [cpc EXCEPT ![c] = "isfile"]
            /\ UNCHANGED manifests
       ELSE RunOn(c, f)
    /\ UNCHANGED <<world, args>>
    /\ Mix(c)
    /\ UNCHANGED oneCallVars

\* lines 535-538 and parser.py line 54: isfile returned; with a file the call
\* runs to the await of aiofiles.open, without one it runs on from line 585
CallIsFile(c) ==
    /\ cpc[c] = "isfile"
    /\ IF EnvOf(c).is_file
       THEN /\ cpc' = [cpc EXCEPT ![c] = "open"]
            /\ UNCHANGED <<frames, manifests>>
       ELSE RunOn(c, frames[Scope(c)])
    /\ UNCHANGED <<world, args>>
    /\ Mix(c)
    /\ UNCHANGED oneCallVars

\* parser.py lines 54-55: the file is open; the call runs to await f.read()
CallOpen(c) ==
    /\ cpc[c] = "open"
    /\ cpc' = [cpc EXCEPT ![c] = "read"]
    /\ UNCHANGED <<world, args, frames, manifests>>
    /\ Mix(c)
    /\ UNCHANGED oneCallVars

\* parser.py lines 55-118 and lines 538-583: the bytes are read and decoded
\* and the dict is made, all without an await; the call runs on from line 585
CallRead(c) ==
    /\ cpc[c] = "read"
    /\ RunOn(c, FrameDecoded(FrameRead(frames[Scope(c)], EnvOf(c))))
    /\ UNCHANGED <<world, args>>
    /\ Mix(c)
    /\ UNCHANGED oneCallVars

\* lines 662-699: getAvailableFirmwares returned; the manifest is returned
CallAvailable(c) ==
    /\ cpc[c] = "getAvailableFirmwares"
    /\ LET h == FrameBuilt(frames[Scope(c)], EnvOf(c).avail) IN
       /\ frames' = [frames EXCEPT ![Scope(c)] = h]
       /\ manifests' = [manifests EXCEPT ![c] = Some(h.manifest)]
    /\ cpc' = [cpc EXCEPT ![c] = "done"]
    /\ UNCHANGED <<world, args>>
    /\ Mix(c)
    /\ UNCHANGED oneCallVars

\* a partitions.bin of the records rs and the end marker
FileOf(rs) ==
    PackAll([i \in 1..Len(rs) |-> [magic |-> PARTITION_MAGIC, rec |-> rs[i]]])
    \o PackEntry([magic |-> PARTITION_END_MARKER,
                  rec |-> PartitionEntry(<<>>, 0, 0, W(0, 0), W(0, 0), W(0, 0))])

\* what the install directories may hold for a device: a partitions.bin of an
\* ota_0 app; one of a spiffs filesystem and a factory app at offset 0, with a
\* declared flashSize; no partitions.bin and a declared flashSize; a
\* partitions.bin with a bad magic; no install root
Envs ==
    { [rootFolder |-> TRUE, fw_type |-> "meshtastic", is_file |-> TRUE,
       file |-> FileOf(<<PartitionEntry(<<97, 112, 112, 48>>, 0, 16, W(1, 0), W(31, 0),
                                        W(0, 0))>>),
       devinfo |-> [flashSize |-> None, chip |-> ""],
       avail |-> [uf2devices |-> {}, espdevices |-> {TBEAM}, rp2040devices |-> {}]],
      [rootFolder |-> TRUE, fw_type |-> "meshtastic", is_file |-> TRUE,
       file |-> FileOf(<<PartitionEntry(<<115, 112, 105, 102, 102, 115>>, 1, 130,
                                        W(64, 0), W(64, 0), W(0, 0)),
                         PartitionEntry(<<102, 97, 99, 116, 111, 114, 121>>, 0, 0,
                                        W(0, 0), W(1, 0), W(0, 0))>>),
       devinfo |-> [flashSize |-> Some(MB(16)), chip |-> "esp32c3"],
       avail |-> [uf2devices |-> {}, espdevices |-> {}, rp2040devices |-> {}]],
      [rootFolder |-> TRUE, fw_type |-> "meshcore", is_file |-> FALSE,
       file |-> <<>>,
       devinfo |-> [flashSize |-> Some(MB(16)), chip |-> ""],
       avail |-> [uf2devices |-> {RAK4631}, espdevices |-> {TBEAM}, rp2040devices |-> {}]],
      [rootFolder |-> TRUE, fw_type |-> "meshtastic", is_file |-> TRUE,
       file |-> PackEntry([magic |-> BadMagic, rec |-> FragmentRecord]),
       devinfo |-> [flashSize |-> None, chip |-> ""],
       avail |-> [uf2devices |-> {}, espdevices |-> {}, rp2040devices |-> {}]],
      [rootFolder |-> FALSE, fw_type |-> "meshtastic", is_file |-> FALSE,
       file |-> <<>>,
       devinfo |-> [flashSize |-> None, chip |-> ""],
       avail |-> [uf2devices |-> {}, espdevices |-> {}, rp2040devices |-> {}]] }

\* two calls for different devices, and what the install directories hold for
\* the two devices
InitConcurrent ==
    /\ args \in {a \in [Calls -> [t : DeviceIds, u : {"1", "2"}]] : a[1].t # a[2].t}
    /\ world \in [{args[c].t : c \in Calls} -> Envs]
    /\ frames = [c \in Calls |-> NewFrame]
    /\ cpc = [c \in Calls |-> "start"]
    /\ manifests = [c \in Calls |-> None]
    /\ mixed = [c \in Calls |-> FALSE]
    /\ input = [entries |-> <<>>, trail |-> <<>>]
    /\ data = <<>>
    /\ offset = 0
    /\ table = EmptyTable
    /\ pc = "calls"
    /\ err = NoError
    /\ check_overlaps = FALSE
    /\ index = 0
    /\ type_val = 0
    /\ subtypes = <<>>
    /\ result = None
    /\ analysis = NoAnalysis
    /\ NoManifest
    /\ NoCall

NextConcurrent ==
    \E c \in Calls :
        \/ CallEnter(c)
        \/ CallRootFolder(c)
        \/ CallLoadInfo(c)
        \/ CallIsFile(c)
        \/ CallOpen(c)
        \/ CallRead(c)
        \/ CallAvailable(c)

SpecConcurrent == InitConcurrent /\ [][NextConcurrent]_vars

-----------------------------------------------------------------------------
(* Properties of the decoder, under SpecParse                              *)

ParseEnded == pc \in {"returned", "raised"}

\* the input is a list of records followed by exactly one end-marker entry
RecordsThenEnd(inp) ==
    /\ inp.trail = <<>>
    /\ Len(inp.entries) >= 1
    /\ inp.entries[Len(inp.entries)].magic = PARTITION_END_MARKER
    /\ \A i \in 1..(Len(inp.entries) - 1) : inp.entries[i].magic = PARTITION_MAGIC

\* the records of such an input, in order
RecordsOf(inp) == [i \in 1..(Len(inp.entries) - 1) |-> inp.entries[i].rec]

\* the name's last code point is U+0000, encoded as a zero byte
EndsWithZero(name) == name # <<>> /\ name[Len(name)] = 0

\* C1 as stated: every list of records with names of at most 16 bytes, packed
\* and followed by an end marker, decodes to the same records in the same order.
C1_RoundTripAnyName ==
    (ParseEnded /\ RecordsThenEnd(input))
        => (pc = "returned" /\ table.entries = RecordsOf(input))

\* C1 amended: the round trip holds for the records whose names do not end in a
\* zero byte: decoding returns them field by field, same count, same order.
C1_RoundTrip ==
    (/\ ParseEnded
     /\ RecordsThenEnd(input)
     /\ \A i \in 1..(Len(input.entries) - 1) : ~EndsWithZero(input.entries[i].rec.name))
        => (/\ pc = "returned"
            /\ Len(table.entries) = Len(input.entries) - 1
            /\ \A i \in 1..(Len(input.entries) - 1) :
                 /\ table.entries[i].name = input.entries[i].rec.name
                 /\ table.entries[i].type_val = input.entries[i].rec.type_val
                 /\ table.entries[i].subtype = input.entries[i].rec.subtype
                 /\ table.entries[i].offset = input.entries[i].rec.offset
                 /\ table.entries[i].size = input.entries[i].rec.size
                 /\ table.entries[i].flags = input.entries[i].rec.flags)

\* two different records, one with a name filling the field and one with a
\* two-byte character after an embedded zero, were decoded and returned
C1_Witness ==
    /\ pc = "returned"
    /\ RecordsThenEnd(input)
    /\ Len(input.entries) = 3
    /\ input.entries[1].rec.name = Repeat(65, NAME_FIELD_SIZE)
    /\ input.entries[2].rec.name = <<65, 0, 233>>
    /\ table.entries = RecordsOf(input)

\* C2: a buffer shorter than 32 bytes, the empty one included, raises the
\* "too small" ParseError whatever its bytes are, and no table is returned.
C2_TooSmall ==
    (Len(data) < PARTITION_ENTRY_SIZE /\ pc # "check_size")
        => (pc = "raised" /\ err.kind = "too_small" /\ table.entries = <<>>)

\* a two-byte buffer holding the end marker was rejected as too small
C2_Witness ==
    /\ pc = "raised"
    /\ err.kind = "too_small"
    /\ data = <<235, 235>>

\* C3: when entry i (from 0) is the first whose magic is neither 0x50AA nor
\* 0xEBEB and no end marker precedes it, ParseError reports byte offset 32*i
\* and no table is returned.
C3_BadMagicOffset ==
    \A i \in 1..Len(input.entries) :
        (/\ ParseEnded
         /\ input.entries[i].magic \notin {PARTITION_MAGIC, PARTITION_END_MARKER}
         /\ \A j \in 1..(i - 1) : input.entries[j].magic = PARTITION_MAGIC)
            => (/\ pc = "raised"
                /\ err.kind = "bad_magic"
                /\ err.at = PARTITION_ENTRY_SIZE * (i - 1))

\* a bad magic in the third entry, after two decoded records, was reported at 64
C3_Witness ==
    /\ pc = "raised"
    /\ err.kind = "bad_magic"
    /\ err.at = 64
    /\ Len(table.entries) = 2
    /\ input.entries[3].magic = BadMagic

\* C4: a buffer of at least one complete entry whose complete entries all carry
\* the valid magic raises the "unexpected end" ParseError, with or without a
\* trailing fragment; a table is returned only if an end-marker entry was read.
C4_Truncated ==
    /\ (/\ ParseEnded
        /\ Len(input.entries) >= 1
        /\ \A i \in 1..Len(input.entries) : input.entries[i].magic = PARTITION_MAGIC)
           => (/\ pc = "raised"
               /\ err.kind = "unexpected_end"
               /\ err.at = PARTITION_ENTRY_SIZE * Len(input.entries))
    /\ pc = "returned"
           => \E i \in 1..Len(input.entries) :
                 /\ input.entries[i].magic = PARTITION_END_MARKER
                 /\ offset = PARTITION_ENTRY_SIZE * (i - 1)

\* two valid records followed by a 31-byte fragment that starts with the end
\* marker's bytes: the decoder ran out of bytes at offset 64
C4_Witness ==
    /\ pc = "raised"
    /\ err.kind = "unexpected_end"
    /\ err.at = 64
    /\ Len(input.entries) = 2
    /\ Len(input.trail) = PARTITION_ENTRY_SIZE - 1
    /\ input.trail[1] = 235

-----------------------------------------------------------------------------
(* Properties of the validator, under SpecValidate                         *)

ValidateEnded == pc \in {"done", "raised"}

\* a multiple of 4096: 65536 is one, so the low word decides
MultipleOf4096(w) == w[2] % 4096 = 0

\* the per-record rules of the validator, as the specification words them
RecordOK(e) ==
    /\ e.name # <<>>
    /\ Len(e.name) <= 16
    /\ MultipleOf4096(e.offset)
    /\ (MultipleOf4096(e.size) \/ e.size = W(65535, 65535))

\* C5: on a non-empty table with the overlap check off, validation succeeds
\* exactly when every record has a non-empty name of at most 16 characters, an
\* offset that is a multiple of 4096 and a size that is a multiple of 4096 or the
\* sentinel; otherwise the ValidationError gives the index and name of a record
\* that breaks a rule.
C5_PerRecord ==
    (ValidateEnded /\ ~check_overlaps /\ table.entries # <<>>)
        => /\ pc = "done" <=> \A i \in 1..Len(table.entries) : RecordOK(table.entries[i])
           /\ pc = "raised" =>
                /\ err.kind \in {"empty_name", "name_too_long", "offset_misaligned",
                                 "size_misaligned"}
                /\ err.at \in 0..(Len(table.entries) - 1)
                /\ ~RecordOK(table.entries[err.at + 1])
                /\ err.kind = "empty_name" => table.entries[err.at + 1].name = <<>>
                /\ err.kind # "empty_name" => err.name = table.entries[err.at + 1].name

\* with the overlap check off, a table of a sentinel-sized record, a record
\* overlapping it and a record with a misaligned size was rejected for the third
C5_Witness ==
    /\ pc = "raised"
    /\ ~check_overlaps
    /\ Len(table.entries) = 3
    /\ table.entries[1].size = SENTINEL_SIZE
    /\ err.kind = "size_misaligned"
    /\ err.at = 2
    /\ err.name = <<106>>

\* position p comes before position q when the entries are sorted ascending by
\* offset, entries of equal offset keeping their table order
ComesBefore(es, p, q) ==
    \/ WLt(es[p].offset, es[q].offset)
    \/ (es[p].offset = es[q].offset /\ p < q)

\* p and q are neighbours in that order among the positions S
AdjacentIn(es, S, p, q) ==
    /\ p \in S /\ q \in S
    /\ ComesBefore(es, p, q)
    /\ ~\E r \in S : ComesBefore(es, p, r) /\ ComesBefore(es, r, q)

\* earlier.offset + earlier.size <= later.offset unless earlier.size is the sentinel
EndsBefore(a, b) == a.size = W(65535, 65535) \/ WLe(WAdd(a.offset, a.size), b.offset)

\* C6 as stated: after a successful validation with the overlap check on, every
\* adjacent pair of ALL the table's records sorted by offset ends before the
\* next one starts, unless the earlier size is the sentinel.
C6_NoOverlapAllRecords ==
    (pc = "done" /\ check_overlaps)
        => \A p, q \in 1..Len(table.entries) :
             AdjacentIn(table.entries, 1..Len(table.entries), p, q)
                => EndsBefore(table.entries[p], table.entries[q])

\* C6 amended: the same for the adjacent pairs of the records whose offset is
\* greater than 0, sorted ascending by offset with ties in table order.
C6_NoOverlapPositiveOffsets ==
    (pc = "done" /\ check_overlaps)
        => \A p, q \in 1..Len(table.entries) :
             AdjacentIn(table.entries,
                        {r \in 1..Len(table.entries) : table.entries[r].offset # W(0, 0)},
                        p, q)
                => EndsBefore(table.entries[p], table.entries[q])

\* a table of three records with positive offsets, given out of offset order,
\* passed the overlap check
C6_Witness ==
    /\ pc = "done"
    /\ check_overlaps
    /\ Len(table.entries) = 3
    /\ table.entries[1].offset = W(65535, 61440)
    /\ table.entries[2].offset = W(0, 8192)
    /\ table.entries[3].offset = W(0, 4096)
    /\ table.entries[3].size = W(0, 4096)

-----------------------------------------------------------------------------
(* Properties of the selector, under SpecFind                              *)

\* the record at position i has the requested type and a listed subtype
IsMatch(i) ==
    /\ table.entries[i].type_val = type_val
    /\ \E k \in 1..Len(subtypes) : subtypes[k] = table.entries[i].subtype

\* the priority of a listed subtype: its first position in the list
PriorityOf(s) == CHOOSE k \in 1..Len(subtypes) : subtypes[k] = s /\ \A m \in 1..(k - 1) : subtypes[m] # s

\* (priority, offset) of record i is not above that of record j, lexicographically
RankLe(i, j) ==
    \/ PriorityOf(table.entries[i].subtype) < PriorityOf(table.entries[j].subtype)
    \/ /\ PriorityOf(table.entries[i].subtype) = PriorityOf(table.entries[j].subtype)
       /\ WLe(table.entries[i].offset, table.entries[j].offset)

\* C7: when some record has the type and a listed subtype, the offset returned
\* is that of a record minimising (index of its subtype in the list, offset);
\* for [0x10, 0x00] a factory record's offset is returned only when the table
\* has no app record of subtype 0x10.
C7_BestMatch ==
    (pc = "done" /\ \E i \in 1..Len(table.entries) : IsMatch(i))
        => /\ result.some
           /\ \E i \in 1..Len(table.entries) :
                /\ IsMatch(i)
                /\ result.val = table.entries[i].offset
                /\ \A j \in 1..Len(table.entries) : IsMatch(j) => RankLe(i, j)
           /\ (/\ type_val = 0
               /\ subtypes = <<16, 0>>
               /\ \E i \in 1..Len(table.entries) :
                     table.entries[i].type_val = 0 /\ table.entries[i].subtype = 16)
                 => \E i \in 1..Len(table.entries) :
                       /\ table.entries[i].type_val = 0
                       /\ table.entries[i].subtype = 16
                       /\ result.val = table.entries[i].offset

\* scenario 2 with a second ota_0 record: factory at 0x10000, ota_0 at 0x30000
\* and at 0x20000; [0x10, 0x00] gave 0x20000
C7_Witness ==
    /\ pc = "done"
    /\ type_val = 0
    /\ subtypes = <<16, 0>>
    /\ Len(table.entries) = 3
    /\ table.entries[1].subtype = 0 /\ table.entries[1].offset = W(1, 0)
    /\ table.entries[2].subtype = 16 /\ table.entries[2].offset = W(3, 0)
    /\ table.entries[3].subtype = 16 /\ table.entries[3].offset = W(2, 0)
    /\ result = Some(W(2, 0))

\* C8: the selector returns None exactly when no record has the requested type
\* and a listed subtype; it never raises, and a found offset of 0 is not None.
C8_NotFound ==
    pc = "done"
        => /\ result = None <=> ~\E i \in 1..Len(table.entries) : IsMatch(i)
           /\ result.some <=> \E i \in 1..Len(table.entries) : IsMatch(i)
           /\ result.some => \E i \in 1..Len(table.entries) :
                                IsMatch(i) /\ result.val = table.entries[i].offset
           /\ err = NoError

\* the factory record at offset 0 was found, beside a data record whose subtype
\* 0x10 is listed but whose type is not the requested one
C8_Witness ==
    /\ pc = "done"
    /\ type_val = 0
    /\ subtypes = <<16, 0>>
    /\ Len(table.entries) = 2
    /\ table.entries[1].type_val = 1 /\ table.entries[1].subtype = 16
    /\ table.entries[2].offset = W(0, 0)
    /\ result = Some(W(0, 0))
    /\ result # None

-----------------------------------------------------------------------------
(* Properties of the analyzer, under SpecAnalyze                           *)

\* n megabytes in bytes, n * 2^20 = (16 * n) * 65536
MegabytesW(n) == W(16 * n, 0)

\* C9: flash_size_bytes is the largest offset + size of the table; the class is
\* the smallest of 2, 4, 8, 16 MB holding it, or above 16 MB the size rounded up
\* to whole megabytes; the class is never below any record's offset + size;
\* exactly 4 MB gives "4MB" and one byte more gives "8MB".
C9_FlashSizeClass ==
    (pc = "done" /\ table.entries # <<>>)
        => LET B == analysis.flash_size_bytes
               n == analysis.flash_size_mb[1]
           IN  /\ \E i \in 1..Len(table.entries) :
                     B = WAdd(table.entries[i].offset, table.entries[i].size)
               /\ \A i \in 1..Len(table.entries) :
                     WLe(WAdd(table.entries[i].offset, table.entries[i].size), B)
               /\ analysis.flash_size_mb = <<n, "MB">>
               /\ WLe(B, MegabytesW(n))
               /\ \A i \in 1..Len(table.entries) :
                     WLe(WAdd(table.entries[i].offset, table.entries[i].size), MegabytesW(n))
               /\ WLe(B, MegabytesW(16)) =>
                     /\ n \in {2, 4, 8, 16}
                     /\ \A m \in {2, 4, 8, 16} : WLe(B, MegabytesW(m)) => n <= m
               /\ ~WLe(B, MegabytesW(16)) => WLt(MegabytesW(n - 1), B)
               /\ B = W(64, 0) => n = 4
               /\ B = W(64, 1) => n = 8

\* a table whose largest end is 4 MB + 1 byte, reached by its first record,
\* was classed "8MB"
C9_Witness ==
    /\ pc = "done"
    /\ Len(table.entries) = 2
    /\ table.entries[1].offset = W(0, 1) /\ table.entries[1].size = W(64, 0)
    /\ table.entries[2].offset = W(0, 0) /\ table.entries[2].size = W(64, 0)
    /\ analysis.flash_size_bytes = W(64, 1)
    /\ analysis.flash_size_mb = <<8, "MB">>

\* C10: on a table with no records format_analysis does not fail and yields
\* flash_size_bytes 0, flash_size_mb "2MB", partition_count 0 and an empty map.
C10_EmptyTable ==
    (table.entries = <<>> /\ pc # "analyze")
        => /\ pc = "done"
           /\ err = NoError
           /\ analysis.flash_size_bytes = W(0, 0)
           /\ analysis.flash_size_mb = <<2, "MB">>
           /\ analysis.partition_count = 0
           /\ analysis.partitions = <<>>

\* the empty table was analysed
C10_Witness ==
    /\ pc = "done"
    /\ table.entries = <<>>
    /\ analysis.flash_size_mb = <<2, "MB">>
    /\ analysis.partition_count = 0

\* the number a sequence of hexadecimal digits denotes, for up to 4 digits
RECURSIVE HexVal(_)
HexVal(ds) ==
    IF ds = <<>> THEN 0 ELSE 16 * HexVal(SubSeq(ds, 1, Len(ds) - 1)) + ds[Len(ds)]

\* the 32-bit number a hexadecimal literal of up to 8 digits denotes
HexValueW(ds) ==
    IF Len(ds) <= 4 THEN W(0, HexVal(ds))
    ELSE W(HexVal(SubSeq(ds, 1, Len(ds) - 4)), HexVal(SubSeq(ds, Len(ds) - 3, Len(ds))))

\* no two records of the table share a name
DistinctNames(es) ==
    \A i, j \in 1..Len(es) : es[i].name = es[j].name => i = j

\* C11: for a table whose record names are pairwise distinct, the partitions
\* map has exactly one key per record, in decode order, each mapped to the
\* hexadecimal literal of that record's own offset, and partition_count equals
\* the number of records and the number of keys.
C11_PartitionsMap ==
    (pc = "done" /\ DistinctNames(table.entries))
        => /\ Len(analysis.partitions) = Len(table.entries)
           /\ analysis.partition_count = Len(table.entries)
           /\ analysis.partition_count = Len(analysis.partitions)
           /\ \A i \in 1..Len(table.entries) :
                 LET item == analysis.partitions[i] IN
                 /\ item[1] = table.entries[i].name
                 /\ item[2].prefix = "0x"
                 /\ item[2].digits # <<>>
                 /\ \A k \in 1..Len(item[2].digits) : item[2].digits[k] \in 0..15
                 /\ Len(item[2].digits) > 1 => item[2].digits[1] # 0
                 /\ HexValueW(item[2].digits) = table.entries[i].offset

\* three records with distinct names, decoded neither in offset order nor in
\* name order, were analysed: the first key is the first record, at 0x400000
C11_Witness ==
    /\ pc = "done"
    /\ Len(table.entries) = 3
    /\ DistinctNames(table.entries)
    /\ table.entries[1].name = <<101>> /\ table.entries[1].offset = W(64, 0)
    /\ table.entries[2].name = <<97>> /\ table.entries[2].offset = W(0, 0)
    /\ table.entries[3].name = <<100>> /\ table.entries[3].offset = W(0, 1)
    /\ analysis.partitions[1] = <<<<101>>, [prefix |-> "0x", digits |-> <<4, 0, 0, 0, 0, 0>>]>>
    /\ analysis.partition_count = 3

-----------------------------------------------------------------------------
(* Properties of buildManifest, under SpecManifest                         *)

\* the flash size and the offsets are resolved
Resolved == pc \in {"build", "manifest_done"}

\* partitions.bin was there and parse_partitions_file returned a table
Decoded == rootFolder /\ is_file /\ err = NoError

\* partitions.bin was there and parse_partitions_file raised
DecodeFailed == rootFolder /\ is_file /\ err # NoError

\* the device id is one of the names of a list
Listed(t, names) == \E i \in 1..Len(names) : names[i] = t

\* the best match of the table for each role, None when there is none
BestFw == FindPartitionByType(table, 0, <<16, 0>>)

BestSecondary == FindPartitionByType(table, 0, <<17, 16, 0>>)

BestFilesystem == FindPartitionByType(table, 1, <<9, 8, 130>>)

\* the hardcoded secondary-image offset of a flash size
HardcodedSecondary(fs) ==
    IF fs = <<16, "MB">> THEN W(101, 0)      \* 0x650000
    ELSE IF fs = <<8, "MB">> THEN W(93, 0)   \* 0x5D0000
    ELSE W(38, 0)                            \* 0x260000

\* the hardcoded filesystem offset of a flash size
HardcodedFilesystem(fs) ==
    IF fs = <<16, "MB">> THEN W(201, 0)      \* 0xc90000
    ELSE IF fs = <<8, "MB">> THEN W(103, 0)  \* 0x670000
    ELSE W(48, 0)                            \* 0x300000

\* the flash size of a request whose table gives none: the declared flashSize,
\* else "8MB" or "16MB" for a device id that is a name of the 8MB or of the
\* 16MB list, else "4MB"
LaterTiers ==
    IF devinfo.flashSize.some /\ devinfo.flashSize.val # <<>>
    THEN devinfo.flashSize.val
    ELSE IF Listed(request.t, BIGDB_8MB_LITERALS) THEN <<8, "MB">>
    ELSE IF Listed(request.t, BIGDB_16MB_LITERALS) THEN <<16, "MB">>
    ELSE <<4, "MB">>

\* C12: the manifest's flashsize comes from the first tier that has a value:
\* the decoded table, else the declared flashSize, else membership of the
\* device id in the 8MB list, then in the 16MB list, else "4MB".
C12_FlashSizeTiers ==
    Resolved
        => LET expected == IF Decoded THEN analysis.flash_size_mb ELSE LaterTiers IN
           /\ flashsize = expected
           /\ pc = "manifest_done" => manifest.flashsize = expected

\* the flash size and the offsets buildManifest resolves for this device and
\* metadata when there is no partitions file
AbsentFlashSize == ResolveFlashSize(None, devinfo, request.t)

AbsentOffsets ==
    <<InstallFwOffset(None), InstallBleotaOffset(None, AbsentFlashSize),
      InstallLittlefsOffset(None, AbsentFlashSize)>>

\* the resolved values are those of the request with no partitions file
SameAsAbsent ==
    /\ flashsize = AbsentFlashSize
    /\ <<install_fw_offset, install_bleota_offset, install_littlefs_offset>> = AbsentOffsets
    /\ pc = "manifest_done"
          => /\ manifest.flashsize = AbsentFlashSize
             /\ \A k \in 1..Len(manifest.parts) :
                   manifest.parts[k].p # "" => manifest.parts[k].offset = AbsentOffsets[k]

\* C13: when partitions.bin exists but decoding raises, the call goes on to a
\* manifest, and the flash size and the three offsets are those of the same
\* request with no partitions file.
C13_DecodeFailureFallsBack ==
    /\ (pc = "raised" /\ rootFolder /\ is_file) => ENABLED ManifestParseFailed
    /\ (DecodeFailed /\ pc \in {"resolve", "build"}) => ENABLED (ManifestResolve \/ ManifestBuild)
    /\ (DecodeFailed /\ pc = "resolve") => ~partitions_offsets.some
    /\ (DecodeFailed /\ Resolved) => SameAsAbsent

\* a file whose second entry has a bad magic, for a device of the 16MB list
\* with no declared flash size: one record was decoded before the failure, and
\* the manifest has the 16MB constants
C13_Witness ==
    /\ pc = "manifest_done"
    /\ DecodeFailed
    /\ err.kind = "bad_magic"
    /\ Len(table.entries) = 1
    /\ table.entries[1].subtype = 16
    /\ request = [t |-> TDECK, u |-> "2"]
    /\ fw_type = "meshtastic"
    /\ ~devinfo.flashSize.some
    /\ manifest.flashsize = <<16, "MB">>
    /\ Len(manifest.parts) = 3
    /\ manifest.parts[1].offset = W(0, 0)
    /\ manifest.parts[2].offset = W(101, 0)
    /\ manifest.parts[3].offset = W(201, 0)

\* the table breaks a rule of the validator: a record with an empty name, a
\* misaligned offset or a misaligned size, or two records that overlap
BreaksValidatorRule(tbl) ==
    \/ \E i \in 1..Len(tbl.entries) : ~RecordOK(tbl.entries[i])
    \/ CheckOverlapsError(tbl.entries).kind = "overlap"

\* C14: a partitions file that decodes but breaks a rule of the validator is
\* treated as a malformed file: no flash size and no offset of the manifest is
\* taken from its table.
C14_InvalidTableFallsBack ==
    (Resolved /\ Decoded /\ BreaksValidatorRule(table)) => SameAsAbsent

\* C15: each offset is decided on its own: it is the table's best match for
\* its role whenever the selector finds one, an offset of 0 included, and the
\* hardcoded value of the resolved flash size otherwise, whatever was found for
\* the other two roles.
C15_PerFieldIndependence ==
    Resolved
        => /\ install_fw_offset =
                 IF Decoded /\ BestFw.some THEN BestFw.val ELSE W(0, 0)
           /\ install_bleota_offset =
                 IF Decoded /\ BestSecondary.some THEN BestSecondary.val
                 ELSE HardcodedSecondary(flashsize)
           /\ install_littlefs_offset =
                 IF Decoded /\ BestFilesystem.some THEN BestFilesystem.val
                 ELSE HardcodedFilesystem(flashsize)

\* a table that holds only a factory application at offset 0: the firmware and
\* the secondary image take offset 0 from the table, the filesystem falls back
\* to the constant of the table's flash size "2MB"
C15_Witness ==
    /\ pc = "manifest_done"
    /\ Decoded
    /\ Len(table.entries) = 1
    /\ table.entries[1].subtype = 0 /\ table.entries[1].offset = W(0, 0)
    /\ BestFw = Some(W(0, 0)) /\ BestSecondary = Some(W(0, 0)) /\ ~BestFilesystem.some
    /\ flashsize = <<2, "MB">>
    /\ install_fw_offset = W(0, 0)
    /\ install_bleota_offset = W(0, 0)
    /\ install_littlefs_offset = W(48, 0)
    /\ Len(manifest.parts) = 3
    /\ manifest.parts[2].offset = W(0, 0)

\* C16: an offset the table does not supply is 0 for the firmware, and for the
\* secondary image and the filesystem (0x650000, 0xc90000) when the resolved
\* flash size is "16MB", (0x5D0000, 0x670000) when it is "8MB", and
\* (0x260000, 0x300000) for every other value.
C16_HardcodedConstants ==
    Resolved
        => /\ ~(Decoded /\ BestFw.some) => install_fw_offset = W(0, 0)
           /\ ~(Decoded /\ BestSecondary.some) =>
                 install_bleota_offset =
                    IF flashsize = <<16, "MB">> THEN W(101, 0)
                    ELSE IF flashsize = <<8, "MB">> THEN W(93, 0)
                    ELSE W(38, 0)
           /\ ~(Decoded /\ BestFilesystem.some) =>
                 install_littlefs_offset =
                    IF flashsize = <<16, "MB">> THEN W(201, 0)
                    ELSE IF flashsize = <<8, "MB">> THEN W(103, 0)
                    ELSE W(48, 0)

\* a table that holds only the nvs record ending at 16 MB supplies the flash
\* size "16MB" and no offset: the manifest has 0, 0x650000 and 0xc90000
C16_Witness ==
    /\ pc = "manifest_done"
    /\ Decoded
    /\ Len(table.entries) = 1 /\ table.entries[1].subtype = 2
    /\ ~BestFw.some /\ ~BestSecondary.some /\ ~BestFilesystem.some
    /\ flashsize = <<16, "MB">>
    /\ Len(manifest.parts) = 3
    /\ manifest.parts[1].offset = W(0, 0)
    /\ manifest.parts[2].offset = W(101, 0)
    /\ manifest.parts[3].offset = W(201, 0)

\* the 8MB constant set
Is8MBSet ==
    /\ flashsize = <<8, "MB">>
    /\ install_fw_offset = W(0, 0)
    /\ install_bleota_offset = W(93, 0)
    /\ install_littlefs_offset = W(103, 0)

\* C17 as worded: with no partitions file, a device id of the 8MB list gets the
\* flash size "8MB" and the 8MB constant set.
C17_NoFileListed8MB ==
    (Resolved /\ ~(rootFolder /\ is_file) /\ Listed(request.t, BIGDB_8MB_LITERALS))
        => Is8MBSet

\* C17: with no partitions file and no declared flashSize in the device
\* metadata, a device id of the 8MB list gets the flash size "8MB" and the
\* offsets 0, 0x5D0000 and 0x670000.
C17_NoFileNoDeclaredListed8MB ==
    (Resolved /\ ~(rootFolder /\ is_file) /\ Listed(request.t, BIGDB_8MB_LITERALS)
       /\ ~(devinfo.flashSize.some /\ devinfo.flashSize.val # <<>>))
        => /\ Is8MBSet
           /\ pc = "manifest_done" => manifest.flashsize = <<8, "MB">>

\* heltec-v3, of the 8MB list, with an install folder but no partitions file
\* and no declared flash size: the manifest has the 8MB constant set
C17_Witness ==
    /\ pc = "manifest_done"
    /\ request = [t |-> HELTEC_V3, u |-> "2"]
    /\ fw_type = "meshtastic"
    /\ rootFolder /\ ~is_file
    /\ ~devinfo.flashSize.some
    /\ manifest.flashsize = <<8, "MB">>
    /\ manifest.parts = <<Part("fw", W(0, 0)), Part("mt-esp32s3-ota", W(93, 0)),
                          Part("littlefs", W(103, 0))>>

-----------------------------------------------------------------------------
(* Further properties of the validator, under SpecValidate                 *)

\* C18: no step of validate_partition_table changes the table, whether the
\* call returns or raises, and a second call on the same table with the same
\* flag ends as the first did: it returns, or raises the same ValidationError.
C18_Idempotent ==
    /\ [][table' = table]_vars
    /\ []((calls = 2 /\ ValidateEnded) => Outcome(pc = "done", err) = first)

\* both calls raised the same overlap error on a table whose records are not
\* in offset order, and the table still has them in that order
C18_Witness ==
    /\ calls = 2
    /\ pc = "raised"
    /\ check_overlaps
    /\ err.kind = "overlap"
    /\ first = Outcome(FALSE, err)
    /\ Len(table.entries) = 2
    /\ table.entries[1].offset = W(0, 8192)
    /\ table.entries[2].offset = W(0, 4096)

\* the per-record check was made on every record of the table
ScannedAll == Len(SelectSeq(checked, LAMBDA c : c = "entry")) = Len(table.entries)

\* the overlap check was made
OverlapChecked == \E k \in 1..Len(checked) : checked[k] = "overlaps"

\* C19 as worded: each of the two checks is made or skipped on its own: on a
\* table with records the overlap check is made exactly when it is asked for,
\* whatever the per-record check does.
C19_ChecksIndependent ==
    (ValidateEnded /\ table.entries # <<>>) => (OverlapChecked <=> check_overlaps)

\* C19: only the overlap check can be skipped. With check_overlaps false the
\* per-record check is made alone; the overlap check is made only when
\* check_overlaps is true and the per-record check has passed every record, so
\* it is never made without the per-record check; the per-record check is
\* made on every call with a table that has records.
C19_OnlyOverlapSkippable ==
    /\ ~check_overlaps => ~OverlapChecked
    /\ OverlapChecked
          => /\ check_overlaps
             /\ ScannedAll
             /\ \A i \in 1..Len(table.entries) : RecordOK(table.entries[i])
    /\ (ValidateEnded /\ table.entries # <<>>) => checked # <<>> /\ checked[1] = "entry"
    /\ (ValidateEnded /\ check_overlaps /\ table.entries # <<>>
          /\ \A i \in 1..Len(table.entries) : RecordOK(table.entries[i]))
          => OverlapChecked

\* with check_overlaps false a table of two records that overlap passed: both
\* records were checked, the overlap check was not made
C19_Witness ==
    /\ pc = "done"
    /\ ~check_overlaps
    /\ checked = <<"entry", "entry">>
    /\ Len(table.entries) = 2
    /\ table.entries[1].offset = W(0, 4096) /\ table.entries[1].size = W(0, 8192)
    /\ table.entries[2].offset = W(0, 8192)
    /\ CheckOverlapsError(table.entries).kind = "overlap"

-----------------------------------------------------------------------------
(* Further properties of the decoder, under SpecParse                      *)

\* the 16-byte name field of the i-th entry of the buffer: bytes 12..27 of it
NameField(i) ==
    SubSeq(data, (i - 1) * PARTITION_ENTRY_SIZE + 13,
           (i - 1) * PARTITION_ENTRY_SIZE + 12 + NAME_FIELD_SIZE)

\* the bytes that precede the first zero byte
RECURSIVE UntilFirstZero(_)
UntilFirstZero(bs) ==
    IF bs = <<>> \/ bs[1] = 0 THEN <<>> ELSE <<bs[1]>> \o UntilFirstZero(Tail(bs))

\* C20: the name of a decoded record is the text of the bytes of its name field
\* that precede the field's first zero byte; no byte after an embedded zero
\* byte appears in it, and a field that starts with a zero byte gives the empty
\* name.
C20_NameUntilFirstZero ==
    \A i \in 1..Len(table.entries) :
        table.entries[i].name = Utf8Decode(UntilFirstZero(NameField(i)))

\* the call is in the decode loop or has left it
InOrPastLoop == pc = "loop" \/ (ParseEnded /\ err.kind # "too_small")

\* C22: for every buffer the call ends, by returning a table or by raising.
\* The read position is a multiple of 32 that never passes the end of the
\* buffer and counts the records decoded, so an iteration that ends the loop is
\* at most number floor(len / 32) + 1; every iteration that does not end the
\* loop moves the read position by exactly 32, and one that ends it leaves the
\* position where it was.
C22_DecodingTerminates ==
    /\ <>ParseEnded
    /\ [](InOrPastLoop
            => /\ offset % 32 = 0
               /\ offset <= Len(data)
               /\ Len(table.entries) = offset \div 32
               /\ (offset \div 32) + 1 <= (Len(data) \div 32) + 1)
    /\ [][(pc = "loop" /\ pc' = "loop") => offset' = offset + 32]_vars
    /\ [][(pc = "loop" /\ pc' # "loop") => (offset' = offset /\ ParseEnded')]_vars
    /\ [](pc = "returned" => err = NoError)
    /\ [](pc = "raised" => err.kind \in {"too_small", "bad_magic", "unexpected_end"})

\* a buffer of three records and two more bytes, with no end marker: the loop
\* ended in its fourth iteration, floor(98 / 32) + 1, with the bytes exhausted
C22_Witness ==
    /\ pc = "raised"
    /\ err.kind = "unexpected_end"
    /\ Len(data) = 3 * 32 + 2
    /\ offset = 3 * 32
    /\ Len(table.entries) = 3

-----------------------------------------------------------------------------
(* The exact overlap rule, under SpecValidate                              *)

\* the positions of the records whose offset is greater than 0
PositiveOffsets == {r \in 1..Len(table.entries) : table.entries[r].offset # W(0, 0)}

\* positions p, q are neighbours among the positive-offset records in
\* ascending offset order, and the record at p runs into the record at q
RunsInto(p, q) ==
    /\ AdjacentIn(table.entries, PositiveOffsets, p, q)
    /\ ~EndsBefore(table.entries[p], table.entries[q])

\* C23: on a non-empty table whose every record passes the per-record check,
\* validation with the overlap check on raises exactly when, among the records
\* of offset > 0 in ascending offset order, some adjacent pair has an earlier
\* size other than the sentinel and offset + size greater than the later
\* offset. The error then names such a pair: both offsets are positive and the
\* earlier size is not the sentinel.
C23_ExactOverlapRule ==
    (/\ ValidateEnded /\ check_overlaps /\ table.entries # <<>>
     /\ \A i \in 1..Len(table.entries) : RecordOK(table.entries[i]))
        => /\ pc = "raised" <=> \E p, q \in 1..Len(table.entries) : RunsInto(p, q)
           /\ pc = "raised" =>
                /\ err.kind = "overlap"
                /\ \E p, q \in 1..Len(table.entries) :
                     /\ RunsInto(p, q)
                     /\ err.name = table.entries[p].name
                     /\ err.next = table.entries[q].name
                     /\ table.entries[p].offset # W(0, 0)
                     /\ table.entries[q].offset # W(0, 0)
                     /\ table.entries[p].size # SENTINEL_SIZE

\* a table passed the overlap check although a two-sector record at offset 0
\* covers the record at 0x1000 and a sentinel-sized record at 0x1000 is followed
\* by a record at 0x2000
C23_Witness ==
    /\ pc = "done"
    /\ check_overlaps
    /\ Len(table.entries) = 3
    /\ table.entries[1].offset = W(0, 0)
    /\ table.entries[1].size = W(0, 8192)
    /\ table.entries[2].offset = W(0, 4096)
    /\ table.entries[2].size = SENTINEL_SIZE
    /\ table.entries[3].offset = W(0, 8192)

-----------------------------------------------------------------------------
(* The order of the checks, under SpecValidate                             *)

\* the positions of the records that break a per-record rule
BadRecords == {i \in 1..Len(table.entries) : ~RecordOK(table.entries[i])}

\* the first rule a record breaks, in the order empty name, name too long,
\* offset alignment, size alignment
FirstBrokenRule(e) ==
    IF e.name = <<>> THEN "empty_name"
    ELSE IF Len(e.name) > 16 THEN "name_too_long"
    ELSE IF ~MultipleOf4096(e.offset) THEN "offset_misaligned"
    ELSE "size_misaligned"

\* C24: the per-record scan runs over all the records before the overlap scan
\* starts, and nothing is scanned after it; when some record breaks a rule the
\* error raised is the per-record error of the lowest-index such record, for
\* the first rule it breaks in the order empty name, name too long, offset
\* alignment, size alignment, whether or not an overlap is present too; an
\* overlap error is raised only when every record passes, and it names the
\* first pair that overlaps in ascending-offset order.
C24_FailFastOrder ==
    /\ [][(pc # "overlaps" /\ pc' = "overlaps")
            => (pc = "entries" /\ index' = Len(table.entries)
                /\ checked' = Repeat("entry", Len(table.entries)))]_vars
    /\ [][pc = "overlaps" => (pc' \in {"done", "raised"}
                              /\ checked' = Append(checked, "overlaps"))]_vars
    /\ []((ValidateEnded /\ BadRecords # {})
            => /\ pc = "raised"
               /\ err.at + 1 \in BadRecords
               /\ \A i \in BadRecords : err.at + 1 <= i
               /\ err.kind = FirstBrokenRule(table.entries[err.at + 1])
               /\ \A k \in 1..Len(checked) : checked[k] = "entry")
    /\ []((pc = "raised" /\ err.kind = "overlap")
            => /\ BadRecords = {}
               /\ \E p, q \in 1..Len(table.entries) :
                    /\ RunsInto(p, q)
                    /\ err.name = table.entries[p].name
                    /\ err.next = table.entries[q].name
                    /\ err.at = Cardinality({r \in PositiveOffsets :
                                               ComesBefore(table.entries, r, p)})
                    /\ \A p2, q2 \in 1..Len(table.entries) :
                         RunsInto(p2, q2) => ~ComesBefore(table.entries, p2, p))

\* with the overlap check on, a table whose first two records overlap and
\* whose third record has an empty name, a misaligned offset and a misaligned
\* size was rejected for the empty name of the third, after three per-record
\* checks and no overlap check
C24_Witness ==
    /\ pc = "raised"
    /\ check_overlaps
    /\ Len(table.entries) = 3
    /\ table.entries[1].offset = W(0, 4096)
    /\ table.entries[1].size = W(0, 8192)
    /\ table.entries[2].offset = W(0, 8192)
    /\ table.entries[3].name = <<>>
    /\ table.entries[3].offset = W(0, 6145)
    /\ err.kind = "empty_name"
    /\ err.at = 2
    /\ checked = <<"entry", "entry", "entry">>

-----------------------------------------------------------------------------
(* Decoding stops at the first end marker, under SpecParse                 *)

\* the position in the input of its first entry with the end-marker magic, or
\* 0 when it has none
FirstEndMarker ==
    LET ends == {k \in 1..Len(input.entries) :
                    input.entries[k].magic = PARTITION_END_MARKER}
    IN  IF ends = {} THEN 0 ELSE CHOOSE k \in ends : \A m \in ends : k <= m

\* end-marker entries that differ in the 30 bytes after the magic
EndMarkerEntries ==
    { PackEntry([magic |-> PARTITION_END_MARKER, rec |-> r]) :
        r \in { PartitionEntry(<<>>, 0, 0, W(0, 0), W(0, 0), W(0, 0)),
                FragmentRecord,
                PartitionEntry(Repeat(127, NAME_FIELD_SIZE), 255, 255,
                               SENTINEL_SIZE, SENTINEL_SIZE, SENTINEL_SIZE) } }

\* what may follow the end marker: nothing, a few bytes, a valid entry, a
\* second end marker, an entry with a bad magic, then 31 more bytes
AfterEndMarker ==
    { <<>>, <<170, 80>> }
    \cup { PackEntry([magic |-> m, rec |-> FragmentRecord]) \o tr :
             m \in {PARTITION_MAGIC, PARTITION_END_MARKER, BadMagic},
             tr \in { <<>>, Repeat(255, PARTITION_ENTRY_SIZE - 1) } }

\* C25: a call that returns found an end marker: the table holds exactly the
\* entries that precede the first entry whose magic is 0xEBEB, in order, md5 is
\* absent, and every buffer that agrees with this one up to that entry's magic
\* decodes to the same table, whatever the other 30 bytes of the end-marker
\* entry are and whatever bytes follow it.
C25_StopsAtFirstEndMarker ==
    pc = "returned"
        => LET k == FirstEndMarker IN
           /\ k >= 1
           /\ \A j \in 1..(k - 1) : input.entries[j].magic = PARTITION_MAGIC
           /\ offset = PARTITION_ENTRY_SIZE * (k - 1)
           /\ table.md5 = None
           /\ Len(table.entries) = k - 1
           /\ \A j \in 1..(k - 1) :
                /\ table.entries[j].type_val = input.entries[j].rec.type_val
                /\ table.entries[j].subtype = input.entries[j].rec.subtype
                /\ table.entries[j].offset = input.entries[j].rec.offset
                /\ table.entries[j].size = input.entries[j].rec.size
                /\ table.entries[j].flags = input.entries[j].rec.flags
           /\ \A m \in EndMarkerEntries, rest \in AfterEndMarker :
                LET other == ParsePartitions(
                                 SubSeq(data, 1, PARTITION_ENTRY_SIZE * (k - 1)) \o m \o rest)
                IN  other.pc = "returned" /\ other.table = table

\* a buffer of a record, an end marker, a further record and 31 more bytes was
\* decoded to a table of the first record alone
C25_Witness ==
    /\ pc = "returned"
    /\ Len(input.entries) = 3
    /\ input.entries[1].magic = PARTITION_MAGIC
    /\ input.entries[2].magic = PARTITION_END_MARKER
    /\ input.entries[3].magic = PARTITION_MAGIC
    /\ Len(input.trail) = PARTITION_ENTRY_SIZE - 1
    /\ Len(table.entries) = 1

-----------------------------------------------------------------------------
(* Pairwise non-overlap, under SpecValidate                                *)

\* C26 as stated: after a successful validation with the overlap check on,
\* every two distinct records a, b with 0 < a.offset <= b.offset and a.size
\* other than the sentinel satisfy a.offset + a.size <= b.offset.
C26_PairwiseNoOverlap ==
    (pc = "done" /\ check_overlaps)
        => \A p, q \in PositiveOffsets :
             (/\ p # q
              /\ WLe(table.entries[p].offset, table.entries[q].offset)
              /\ table.entries[p].size # SENTINEL_SIZE)
                => WLe(WAdd(table.entries[p].offset, table.entries[p].size),
                       table.entries[q].offset)

\* C26 amended: the same for every two records a, b of offset > 0 where a
\* comes before b in ascending offset order, records of equal offset taken in
\* table order: a.offset < b.offset, or the offsets are equal and a precedes b
\* in the table. It holds for pairs that are not adjacent and for pairs with
\* sentinel-sized records between them.
C26_PairwiseNoOverlapInSortOrder ==
    (pc = "done" /\ check_overlaps)
        => \A p, q \in PositiveOffsets :
             (/\ ComesBefore(table.entries, p, q)
              /\ table.entries[p].size # SENTINEL_SIZE)
                => WLe(WAdd(table.entries[p].offset, table.entries[p].size),
                       table.entries[q].offset)

\* a table passed the overlap check in which an empty record at 0x1000 and a
\* record at 0x2000 are not adjacent in offset order: a sentinel-sized record
\* at 0x1000 lies between them
C26_Witness ==
    /\ pc = "done"
    /\ check_overlaps
    /\ Len(table.entries) = 3
    /\ table.entries[1].offset = W(0, 4096)
    /\ table.entries[1].size = W(0, 0)
    /\ table.entries[2].offset = W(0, 4096)
    /\ table.entries[2].size = SENTINEL_SIZE
    /\ table.entries[3].offset = W(0, 8192)
    /\ table.entries[3].size = W(0, 4096)

-----------------------------------------------------------------------------
(* The empty table, under SpecParseValidate                                *)

\* the call ended in parse_partitions_file, with a ParseError
DecodeRaised ==
    pc = "raised" /\ err.kind \in {"too_small", "unexpected_end", "unpack", "bad_magic"}

\* C27: validate_partition_table raises for the table of zero records before
\* any per-record or overlap check, whatever check_overlaps is; so on a buffer
\* whose first entry is the end marker, for which parse_partitions_file returns
\* the empty table, parse_partitions_with_validation raises; and the table it
\* returns is never empty and passes the per-record check, and the overlap
\* check when that was requested.
C27_EmptyTableRejected ==
    /\ (ValidateEnded /\ ~DecodeRaised /\ table.entries = <<>>)
          => (pc = "raised" /\ err.kind = "empty_table" /\ checked = <<>>)
    /\ (err.kind = "empty_table") => (table.entries = <<>> /\ checked = <<>>)
    /\ (/\ ValidateEnded
        /\ Len(input.entries) >= 1
        /\ input.entries[1].magic = PARTITION_END_MARKER)
          => /\ ParsePartitions(data).pc = "returned"
             /\ ParsePartitions(data).table = EmptyTable
             /\ pc = "raised"
             /\ err.kind = "empty_table"
    /\ pc = "done"
          => /\ table.entries # <<>>
             /\ table = ParsePartitions(data).table
             /\ \A i \in 1..Len(table.entries) : RecordOK(table.entries[i])
             /\ check_overlaps => ~\E p, q \in 1..Len(table.entries) : RunsInto(p, q)

\* with the overlap check off, the call on a buffer that starts with the end
\* marker and goes on with a valid record raised for the empty table
C27_Witness ==
    /\ pc = "raised"
    /\ err.kind = "empty_table"
    /\ ~check_overlaps
    /\ Len(input.entries) = 2
    /\ input.entries[1].magic = PARTITION_END_MARKER
    /\ input.entries[2].magic = PARTITION_MAGIC
    /\ checked = <<>>

-----------------------------------------------------------------------------
(* The firmware role and the secondary-image role, under SpecManifest      *)

\* the table has no app record of subtype 0x11 (ota_1)
NoOta1 == \A i \in 1..Len(table.entries) :
              ~(table.entries[i].type_val = 0 /\ table.entries[i].subtype = 17)

\* C28: on a table with no app record of subtype 0x11 the search with the list
\* [0x11, 0x10, 0x00] returns what the search with [0x10, 0x00] returns, so a
\* manifest built from such a decoded table that supplies a firmware offset has
\* its secondary-image offset equal to its firmware offset; and on every table
\* the secondary role is found whenever the firmware role is found.
C28_SecondaryFollowsFirmware ==
    /\ NoOta1 => FindPartitionByType(table, 0, <<17, 16, 0>>)
                    = FindPartitionByType(table, 0, <<16, 0>>)
    /\ FindPartitionByType(table, 0, <<16, 0>>).some
          => FindPartitionByType(table, 0, <<17, 16, 0>>).some
    /\ (Resolved /\ Decoded)
          => /\ partitions_offsets.val.fw_offset.some
                    => partitions_offsets.val.bleota_offset.some
             /\ (NoOta1 /\ partitions_offsets.val.fw_offset.some)
                    => /\ install_fw_offset = partitions_offsets.val.fw_offset.val
                       /\ install_bleota_offset = install_fw_offset

\* a manifest was built from a decoded table whose only record is a factory
\* app at offset 0: the firmware offset is found, it is 0, and the
\* secondary-image offset is 0 too, not a hardcoded constant
C28_Witness ==
    /\ pc = "manifest_done"
    /\ Decoded
    /\ NoOta1
    /\ Len(table.entries) = 1
    /\ table.entries[1].type_val = 0
    /\ table.entries[1].subtype = 0
    /\ partitions_offsets.val.fw_offset = Some(W(0, 0))
    /\ install_fw_offset = W(0, 0)
    /\ install_bleota_offset = W(0, 0)

-----------------------------------------------------------------------------
(* The flash size after a successful decode, under SpecManifest            *)

\* n MB is the flash-size class of the table: the smallest of 2, 4, 8, 16 MB
\* that holds every record's offset + size, or above 16 MB the largest
\* offset + size rounded up to whole megabytes
IsClassOfTable(n) ==
    LET ends == {WAdd(table.entries[i].offset, table.entries[i].size) :
                    i \in 1..Len(table.entries)}
        fits(m) == \A e \in ends : WLe(e, MegabytesW(m))
    IN  /\ fits(n)
        /\ IF fits(16) THEN n \in {2, 4, 8, 16} /\ \A m \in {2, 4, 8, 16} : fits(m) => n <= m
           ELSE ~fits(n - 1)

\* C29: whenever partitions.bin decoded without error the resolved flash size
\* and the manifest's flashsize are the table's flash-size class, whatever the
\* records, the declared flashSize and the device id are: "2MB" for a table of
\* zero records, and also when no role is found. So a flash size that is not
\* the table's class occurs only when the file is absent, the install root is
\* unknown or decoding raised.
C29_DecodedTableGivesFlashSize ==
    /\ (Resolved /\ Decoded)
          => /\ partitions_offsets.some
             /\ flashsize # <<>>
             /\ flashsize[2] = "MB"
             /\ IsClassOfTable(flashsize[1])
             /\ table.entries = <<>> => flashsize = <<2, "MB">>
             /\ pc = "manifest_done" => manifest.flashsize = flashsize
    /\ (Resolved /\ ~(Len(flashsize) = 2 /\ flashsize[2] = "MB" /\ IsClassOfTable(flashsize[1])))
          => (~is_file \/ ~rootFolder \/ err # NoError)

\* a manifest for heltec-v3, a name of the 8MB list, with a declared flashSize
\* of 16MB, was built from a partitions.bin that holds the end marker alone:
\* no role is found and the flashsize is "2MB"
C29_Witness ==
    /\ pc = "manifest_done"
    /\ Decoded
    /\ table.entries = <<>>
    /\ request.t = HELTEC_V3
    /\ devinfo.flashSize = Some(<<16, "MB">>)
    /\ partitions_offsets.val.fw_offset = None
    /\ partitions_offsets.val.bleota_offset = None
    /\ partitions_offsets.val.littlefs_offset = None
    /\ manifest.flashsize = <<2, "MB">>

-----------------------------------------------------------------------------
(* The sentinel size in the analysis, under SpecAnalyze                    *)

\* the positions of the records whose size is the sentinel
SentinelSized == {i \in 1..Len(table.entries) : table.entries[i].size = SENTINEL_SIZE}

\* off + 0xFFFFFFFF = off + 2^32 - 1 as an integer of any width
PlusSentinel(off) ==
    IF off[2] > 0 THEN <<off[1] + 65536, off[2] - 1>> ELSE <<off[1] + 65535, 65535>>

\* C30: format_analysis treats the sentinel size as a number: a record of size
\* 0xFFFFFFFF counts with offset + 0xFFFFFFFF, a sum that is not wrapped to 32
\* bits, so a table with such a record has flash_size_bytes of at least
\* 0xFFFFFFFF and a flash_size_mb of 4096 MB or more, none of 2MB, 4MB, 8MB and
\* 16MB; the validator's size rule does not reject the record.
C30_SentinelCountsAsSize ==
    (pc = "done" /\ SentinelSized # {})
        => /\ \A i \in SentinelSized :
                /\ WLe(PlusSentinel(table.entries[i].offset), analysis.flash_size_bytes)
                /\ ValidateEntryError(table.entries[i], i - 1).kind # "size_misaligned"
           /\ WLe(W(65535, 65535), analysis.flash_size_bytes)
           /\ analysis.flash_size_mb[2] = "MB"
           /\ analysis.flash_size_mb[1] >= 4096
           /\ analysis.flash_size_mb \notin {<<2, "MB">>, <<4, "MB">>, <<8, "MB">>, <<16, "MB">>}

\* a table that validate_partition_table accepts with the overlap check on, a
\* 1 MB record at 0xe000 and a sentinel-sized record at 0x1000, was analysed:
\* flash_size_bytes is 0x100000FFF and flash_size_mb is "4097MB"
C30_Witness ==
    /\ pc = "done"
    /\ Len(table.entries) = 2
    /\ table.entries[1].offset = W(0, 57344)
    /\ table.entries[2].offset = W(0, 4096)
    /\ table.entries[2].size = SENTINEL_SIZE
    /\ ValidationError(table, TRUE) = NoError
    /\ analysis.flash_size_bytes = <<65536, 4095>>
    /\ analysis.flash_size_mb = <<4097, "MB">>

-----------------------------------------------------------------------------
(* No cross-talk between calls, under SpecConcurrent                       *)

\* the local variables at the return of a call with the arguments a that runs
\* alone: its statements in program order, nothing in between
AloneFrame(a) ==
    LET env == world[a.t]
        f == FrameInfo(FrameRooted(FrameEntered(NewFrame, a), env), env)
        g == IF f.rootFolder /\ env.is_file THEN FrameDecoded(FrameRead(f, env)) ELSE f
    IN  FrameBuilt(FrameResolved(g), env.avail)

\* C21: two buildManifest calls for different devices that run interleaved at
\* their await points each return the manifest, with its flashsize and its
\* offsets, that the call returns when it runs alone, and end with the flash
\* size and the three offsets it resolves alone; a step of one call leaves the
\* local variables and the result of the other call as they are; and no step
\* writes what the install directories hold or the arguments.
C21_NoCrossTalk ==
    /\ [](\A c \in Calls :
            manifests[c].some
               => /\ manifests[c].val = AloneFrame(args[c]).manifest
                  /\ manifests[c].val.flashsize = AloneFrame(args[c]).flashsize
                  /\ cpc[c] = "done")
    /\ [](\A c \in Calls :
            cpc[c] = "done"
               => /\ manifests[c].some
                  /\ frames[c].flashsize = AloneFrame(args[c]).flashsize
                  /\ frames[c].install_fw_offset = AloneFrame(args[c]).install_fw_offset
                  /\ frames[c].install_bleota_offset
                        = AloneFrame(args[c]).install_bleota_offset
                  /\ frames[c].install_littlefs_offset
                        = AloneFrame(args[c]).install_littlefs_offset)
    /\ [][\A c \in Calls :
            cpc'[c] = cpc[c] => (frames'[c] = frames[c] /\ manifests'[c] = manifests[c])]_vars
    /\ [][world' = world /\ args' = args]_vars

\* both calls returned, each after steps it took while the other was suspended
\* at an await: one, with u = "2", decoded an ota_0 table and returned "2MB"
\* with the firmware at 0x10000, the other found no partitions.bin and
\* returned the declared "16MB"
C21_Witness ==
    /\ \A c \in Calls : cpc[c] = "done" /\ mixed[c] /\ manifests[c].some
    /\ args[1].u = "2"
    /\ frames[1].partitions_offsets.some
    /\ manifests[1].val.flashsize = <<2, "MB">>
    /\ manifests[1].val.parts[1].offset = W(1, 0)
    /\ ~frames[2].partitions_offsets.some
    /\ manifests[2].val.flashsize = <<16, "MB">>

=============================================================================
